---- MODULE Spec2Model ----
(***************************************************************************)
(* Credential lifecycle of the ReAI Copilot client                         *)
(* (internal/copilot: client.go, completions.go, the model discovery).     *)
(*                                                                         *)
(* Strings are sequences of atoms.  An atom is a run of characters that    *)
(* the code never looks inside: the separators ".", ";", "=", " " are one  *)
(* character each, the others are words (a key, a timestamp, a base64url   *)
(* text).  Instants are seconds since the epoch; a nil *time.Time is the   *)
(* empty sequence and a set one is <<t>>.                                  *)
(***************************************************************************)
EXTENDS Integers, Sequences, FiniteSets, TLC

\* ---------------------------------------------------------------- bounds
MaxTokLen == 4
MaxNow == 60
TickStep == 30
MaxPolls == 2
MaxRefreshNow == 600
RefreshStep == 100
MaxElems == 3
MaxLines == 3

\* ------------------------------------------------------- program constants
TokenRefreshBufferSeconds == 60
DefaultTokenLifetimeSeconds == 1500
SessionTokenRetries == 3
RefreshInterval == 300
MaxPromptLength == 8192
DefaultMaxTokens == 1000
NumEndpoints == 5
HTTPErrorStatus == 400

Nil == <<>>
Some(t) == <<t>>

\* ------------------------------------------------------------------ atoms
\* Base64url texts: each stands for the encoding of one JSON document.
PayloadAtoms == {"PExp90", "PExp150", "PExp400", "PNoExp", "PStrExp"}
\* Words made of base64url characters only.
WordAtoms == {"exp", "hdr", "sig"}
\* RFC 3339 timestamps (they hold ':' and so are no base64url text).
TimeAtoms == {"TS120"}
SepAtoms == {".", ";", "=", " "}

\* Number of characters of an atom.  PExp90 is the 16 characters of
\* {"exp": 90 }, PExp150 the 15 of {"exp":150}, PExp400 the 15 of
\* {"exp":400}, PNoExp the 3 of {} and PStrExp the 14 of {"exp":""}.
AtomLen(a) ==
  CASE a = "PExp90" -> 16
    [] a = "PExp150" -> 15
    [] a = "PExp400" -> 15
    [] a = "PNoExp" -> 3
    [] a = "PStrExp" -> 14
    [] a \in WordAtoms -> 3
    [] a = "torn" -> 4
    [] a = "TS120" -> 20
    [] OTHER -> 1

RECURSIVE StrLen(_)
StrLen(s) == IF s = <<>> THEN 0 ELSE AtomLen(Head(s)) + StrLen(Tail(s))

\* The JSON document a base64url text decodes to.
PayloadJSON(a) ==
  CASE a = "PExp90" -> [kind |-> "object", hasExp |-> TRUE, expIsInt |-> TRUE, exp |-> 90]
    [] a = "PExp150" -> [kind |-> "object", hasExp |-> TRUE, expIsInt |-> TRUE, exp |-> 150]
    [] a = "PExp400" -> [kind |-> "object", hasExp |-> TRUE, expIsInt |-> TRUE, exp |-> 400]
    [] a = "PNoExp" -> [kind |-> "object", hasExp |-> FALSE, expIsInt |-> FALSE, exp |-> 0]
    [] a = "PStrExp" -> [kind |-> "object", hasExp |-> TRUE, expIsInt |-> FALSE, exp |-> 0]
    [] OTHER -> [kind |-> "garbage", hasExp |-> FALSE, expIsInt |-> FALSE, exp |-> 0]

Garbage == [kind |-> "garbage", hasExp |-> FALSE, expIsInt |-> FALSE, exp |-> 0]

\* ------------------------------------------------------- string helpers
HasSep(s, sep) == \E i \in 1..Len(s) : s[i] = sep

FirstSep(s, sep) == CHOOSE i \in 1..Len(s) : s[i] = sep /\ \A j \in 1..(i - 1) : s[j] # sep

\* strings.Split(s, sep): always at least one part.
RECURSIVE Split(_, _)
Split(s, sep) ==
  IF ~HasSep(s, sep) THEN <<s>>
  ELSE <<SubSeq(s, 1, FirstSep(s, sep) - 1)>>
         \o Split(SubSeq(s, FirstSep(s, sep) + 1, Len(s)), sep)

\* strings.SplitN(s, sep, 2): the text before the first sep and all the rest.
SplitN2(s, sep) ==
  IF ~HasSep(s, sep) THEN <<s>>
  ELSE <<SubSeq(s, 1, FirstSep(s, sep) - 1), SubSeq(s, FirstSep(s, sep) + 1, Len(s))>>

RECURSIVE TrimLeft(_)
TrimLeft(s) == IF s # <<>> /\ Head(s) = " " THEN TrimLeft(Tail(s)) ELSE s

RECURSIVE TrimRight(_)
TrimRight(s) ==
  IF s # <<>> /\ s[Len(s)] = " " THEN TrimRight(SubSeq(s, 1, Len(s) - 1)) ELSE s

\* strings.TrimSpace
TrimSpace(s) == TrimRight(TrimLeft(s))

\* strings.Repeat("=", n)
RECURSIVE RepeatEq(_)
RepeatEq(n) == IF n <= 0 THEN <<>> ELSE <<"=">> \o RepeatEq(n - 1)

\* ---------------------------------------------------------------- base64
\* The payload with the padding lines 243-246 add.  The mutant adds the
\* padding also when the length is already a multiple of 4.
PadPayloadAlways(payload) == payload \o RepeatEq(4 - (StrLen(payload) % 4))

PadPayload(payload) ==
  LET padding == 4 - (StrLen(payload) % 4)
  IN IF padding # 4 THEN payload \o RepeatEq(padding) ELSE payload

RECURSIVE StripPad(_)
StripPad(s) ==
  IF s # <<>> /\ s[Len(s)] = "=" THEN StripPad(SubSeq(s, 1, Len(s) - 1)) ELSE s

\* base64.URLEncoding.DecodeString: padded base64url.  The text is a run of
\* base64url characters followed by exactly the padding its length asks for
\* (none, "==" or "="); anything else is a decode error.  The bytes are a
\* JSON document when the run is one encoded document, garbage otherwise.
DecodeString(s) ==
  LET core == StripPad(s)
      pad == Len(s) - Len(core)
      n == StrLen(core)
      chars == \A i \in 1..Len(core) : core[i] \in PayloadAtoms \cup WordAtoms
      ok == /\ chars
            /\ \/ n % 4 = 0 /\ pad = 0
               \/ n % 4 = 2 /\ pad = 2
               \/ n % 4 = 3 /\ pad = 1
  IN [ok |-> ok,
      bytes |-> IF ok /\ Len(core) = 1 THEN PayloadJSON(core[1]) ELSE Garbage]

\* json.Unmarshal(decoded, &claims) with claims a JWTClaims{Exp int64}: an
\* object without "exp" parses and leaves Exp at its zero value; an "exp"
\* that is no integer is a type error.
UnmarshalClaims(bytes) ==
  IF bytes.kind # "object" THEN [ok |-> FALSE, Exp |-> 0]
  ELSE IF ~bytes.hasExp THEN [ok |-> TRUE, Exp |-> 0]
  ELSE IF ~bytes.expIsInt THEN [ok |-> FALSE, Exp |-> 0]
  ELSE [ok |-> TRUE, Exp |-> bytes.exp]

\* time.Parse(time.RFC3339, s)
ParseRFC3339(s) ==
  IF Len(s) = 1 /\ s[1] \in TimeAtoms THEN [ok |-> TRUE, t |-> 120] ELSE [ok |-> FALSE, t |-> 0]

\* ------------------------------------------------------- expiry extraction
\* extractExpValueLegacy: the first "exp" pair whose value parses.
RECURSIVE LegacyScan(_)
LegacyScan(pairs) ==
  IF pairs = <<>> THEN Nil
  ELSE LET kv == SplitN2(Head(pairs), "=")
       IN IF /\ Len(kv) = 2
             /\ TrimSpace(kv[1]) = <<"exp">>
             /\ ParseRFC3339(TrimSpace(kv[2])).ok
          THEN Some(ParseRFC3339(TrimSpace(kv[2])).t)
          ELSE LegacyScan(Tail(pairs))

extractExpValueLegacy(token) == LegacyScan(Split(token, ";"))

\* extractExpFromJWT: the expiry and whether the legacy scan produced it
\* (the error the code returns is always nil).
extractExpFromJWT(token) ==
  LET parts == Split(token, ".")
      legacy == [exp |-> extractExpValueLegacy(token), legacy |-> TRUE]
  IN IF Len(parts) # 3 THEN legacy
     ELSE LET decoded == DecodeString(PadPayload(parts[2]))
              claims == UnmarshalClaims(decoded.bytes)
          IN IF ~decoded.ok THEN legacy
             ELSE IF ~claims.ok THEN legacy
             ELSE [exp |-> Some(claims.Exp), legacy |-> FALSE]


\* ------------------------------------------------------------------ state
\* The goroutines serving inbound requests, and the one main.go starts for
\* StartTokenRefresh.
Procs == {"h1", "h2"}
Refresher == "bg"
Goroutines == Procs \cup {Refresher}

\* What the provider's session-token endpoint can answer with.
ExchangeTokens ==
  { <<"hdr", ".", "PExp90", ".", "sig">>,
    <<"hdr", ".", "PNoExp", ".", "sig">>,
    <<"exp", "=", "TS120">>,
    <<"hdr">> }

\* What the endpoint answers with in the runs that follow the refresher
\* over several of its ticks.
RefreshTokens == { <<"hdr", ".", "PExp400", ".", "sig">> }

\* Line 219: what extractExpFromJWT returns for each token the endpoint can
\* answer with.
ExpOfIssued == [t \in ExchangeTokens \cup RefreshTokens |-> extractExpFromJWT(t)]

\* The device code endpoint's reply: the polling interval and the validity
\* window of the device code, in seconds.
DeviceCode == [Interval |-> 5, ExpiresIn |-> 10]

\* What the token file can hold when the process starts.
TokenFiles ==
  { [readable |-> FALSE, data |-> <<>>],
    [readable |-> TRUE, data |-> <<"gho", " ">>] }

\* Token files os.ReadFile reads without error and that hold no credential:
\* an empty file and one of white space.
BlankTokenFiles ==
  { [readable |-> TRUE, data |-> <<>>],
    [readable |-> TRUE, data |-> <<" ">>] }

\* The atoms expiry extraction is explored over (ExtractSpec).
ExAtoms == {".", ";", "=", " ", "exp", "TS120", "PExp90", "PExp150", "PNoExp", "PStrExp"}
ExTokens == UNION {[1..k -> ExAtoms] : k \in 0..MaxTokLen}

VARIABLES
  accessToken,   \* Client.accessToken
  sessionToken,  \* Client.sessionToken
  expiresAt,     \* Client.expiresAt: Nil or <<instant>>
  writer,        \* Client.mutex: the goroutine holding it exclusively, or "none"
  readers,       \* Client.mutex: the goroutines holding it shared
  tokenFile,     \* the file at config.TokenFilePath()
  now,           \* time.Now(), in seconds
  pc,            \* each goroutine's position
  op,            \* the operation each goroutine runs
  valid,         \* the result of the goroutine's isTokenValid call
  tok,           \* GetSessionToken's tokenData.Token
  gstErr,        \* what GetSessionToken returns
  attempts,      \* exchange requests this GetSessionToken call has sent
  local,         \* the caller's local sessionToken (completions.go:38, models.go:47)
  ret,           \* what the operation returns to the handler
  polls,         \* polls of the access-token endpoint by the running Setup
  wroteExp,      \* history: this call assigned c.expiresAt
  stored,        \* history: this call assigned c.sessionToken
  validAtLock,   \* history: the credential was valid when this call took the lock
  expFresh,      \* history: expiresAt was assigned by the call that assigned sessionToken
  lastTok,       \* history: the token of the exchange that completed last
  exToken,       \* ExtractSpec: the input of extractExpFromJWT
  exOut,         \* ExtractSpec: its result
  ctx,           \* each goroutine's context: "background", "live" or "done"
  nextTick,      \* the instant StartTokenRefresh's ticker fires next
  issued,        \* the credentials the session-token endpoint answers with
  replies,       \* history: the poll outcomes of the running Setup
  lifetimeOk,    \* history: the stored expiry was more than one refresh
                 \* interval ahead when it was assigned
  requests,      \* the CompletionRequests the handlers decode from callers
  req,           \* GetCompletion's req argument: Nil or <<request>>
  sent,          \* the copilotReq GetCompletion handed to makeRequest
  psBody,        \* ParseSpec: the input of parseModelsResponse
  psOut,         \* ParseSpec: its result
  stBody,        \* StreamSpec: the input of parseStreamingResponse
  stOut,         \* StreamSpec: its result
  mdIn,          \* DiscoverySpec: what the servers answer to GetAvailableModels
  mdPc,          \* DiscoverySpec: the position of GetAvailableModels
  mdReq,         \* DiscoverySpec, history: the requests sent, in order
  mdOut,         \* DiscoverySpec: what GetAvailableModels returns
  mrIn,          \* MakeRequestSpec: what the transport answers
  mrPc,          \* MakeRequestSpec: the position of makeRequest
  mrCalls,       \* MakeRequestSpec, history: calls of httpClient.Do
  mrOut,         \* MakeRequestSpec: what makeRequest returns
  suIn,          \* SetupSpec: Setup's caller and the device-code endpoint's reply
  suPc,          \* SetupSpec: the position of Setup
  suReplies,     \* SetupSpec, history: the poll outcomes so far
  suErr,         \* SetupSpec: the error Setup returns
  erIn,          \* ErrorSpec: the operation, the servers' answers and the
                 \* credentials of two runs
  erOut          \* ErrorSpec: the error each run returns

clientVars == <<accessToken, sessionToken, expiresAt, writer, readers, tokenFile>>
callVars == <<pc, op, local, ret>>
gstVars == <<valid, tok, gstErr, attempts, wroteExp, stored, validAtLock>>
histVars == <<expFresh, lastTok>>
fnVars == <<psBody, psOut, stBody, stOut>>
mdVars == <<mdIn, mdPc, mdReq, mdOut>>
mrVars == <<mrIn, mrPc, mrCalls, mrOut>>
suVars == <<suIn, suPc, suReplies, suErr>>
erVars == <<erIn, erOut>>
exVars == <<exToken, exOut, fnVars, mdVars, mrVars, suVars, erVars>>
reqVars == <<requests, req, sent>>
envVars == <<ctx, nextTick, issued>>
refHist == <<lifetimeOk>>
vars == <<clientVars, callVars, gstVars, histVars, exVars, envVars, refHist, now, polls,
          replies, reqVars>>

NoOut == [exp |-> Nil, legacy |-> FALSE, done |-> FALSE]

\* The CompletionRequest a handler passes to GetCompletion: the length of
\* Prompt in bytes, MaxTokens, Stream, Temperature and Language.
CompletionRequest(n, m, st, t, l) ==
  [PromptLen |-> n, MaxTokens |-> m, Stream |-> st, Temperature |-> t, Language |-> l]

\* Two callers' requests: one whose prompt has the configured maximum
\* length, one whose prompt is a byte longer.
PlainRequests ==
  { CompletionRequest(n, 0, FALSE, "0", "") : n \in {MaxPromptLength, MaxPromptLength + 1} }

\* The mutant hands the caller's Stream field on.
copilotReqPassingStream(r) ==
  [prompt |-> r.PromptLen,
   max_tokens |-> IF r.MaxTokens = 0 THEN DefaultMaxTokens ELSE r.MaxTokens,
   temperature |-> r.Temperature,
   stop |-> << "\n" >>,
   stream |-> r.Stream,
   language |-> IF r.Language = "" THEN "text" ELSE r.Language]

\* completions.go lines 47-76: the defaults and the request body.
copilotReq(r) ==
  [prompt |-> r.PromptLen,
   max_tokens |-> IF r.MaxTokens = 0 THEN DefaultMaxTokens ELSE r.MaxTokens,
   temperature |-> r.Temperature,
   stop |-> << "\n" >>,
   stream |-> TRUE,
   language |-> IF r.Language = "" THEN "text" ELSE r.Language]

\* The mutant lets a prompt one byte over the maximum through.
PromptTooLongByTwo(r) == r.PromptLen > MaxPromptLength + 1

\* completions.go line 26: len(req.Prompt) > c.config.MaxPromptLength.
PromptTooLong(r) == r.PromptLen > MaxPromptLength

\* The errors package: the type and the status code of each constructor.
NewAuthenticationError == [Type |-> "authentication_error", Code |-> 401]
NewValidationError == [Type |-> "validation_error", Code |-> 400]
NewCopilotAPIErrorAsInternal == [Type |-> "copilot_api_error", Code |-> 500]
NewCopilotAPIError == [Type |-> "copilot_api_error", Code |-> 502]

\* The error behind each failure of GetCompletion: completions.go lines 27,
\* 34, 40 and 80.
APIError(kind) ==
  CASE kind = "validation" -> NewValidationError
    [] kind = "authentication" -> NewAuthenticationError
    [] kind = "upstream" -> NewCopilotAPIError

\* The requests GetCompletion is examined with on its own.
CompletionRequests ==
  { CompletionRequest(n, m, st, t, l) :
      n \in {0, MaxPromptLength, MaxPromptLength + 1}, m \in {-1, 0, 16},
      st \in BOOLEAN, t \in {"0", "0.7"}, l \in {"", "go"} }

\* ------------------------------------------------------- model discovery
\* A reply body as json.Unmarshal sees it: text that is not JSON, null, an
\* object (whose "data" member is absent, an array, or of another type) or
\* an array.  elems holds the elements of the array, or of "data".
Body(k, data, elems) == [k |-> k, data |-> data, elems |-> elems]

\* The elements of an array: an object with an "id" and an "owned_by", a
\* string, or null.
Obj(id, owner) == [t |-> "obj", id |-> id, owner |-> owner]
Str(name) == [t |-> "str", id |-> name, owner |-> ""]
Null == [t |-> "null", id |-> "", owner |-> ""]

Elems == {Obj("a", "o1"), Obj("a", "o2"), Obj("b", "o1"), Str("a"), Str("c"), Null}

RECURSIVE SeqsUpTo(_, _)
SeqsUpTo(S, n) ==
  IF n = 0 THEN {<<>>}
  ELSE LET shorter == SeqsUpTo(S, n - 1)
       IN shorter \cup {Append(q, e) : q \in shorter, e \in S}

\* Every body with arrays of at most MaxElems elements.
ParseBodies ==
  {Body("invalid", "absent", <<>>), Body("null", "absent", <<>>),
   Body("object", "absent", <<>>), Body("object", "other", <<>>)}
    \cup {Body("object", "array", q) : q \in SeqsUpTo(Elems, MaxElems)}
    \cup {Body("array", "absent", q) : q \in SeqsUpTo(Elems, MaxElems)}

\* ModelInfo: its ID and OwnedBy fields.
ModelInfo(id, owner) == [ID |-> id, OwnedBy |-> owner]

\* json.Unmarshal of an array into []ModelInfo: an object fills a ModelInfo,
\* null leaves the zero value, a string is a type error.
UnmarshalModels(elems) ==
  IF \E i \in 1..Len(elems) : elems[i].t = "str"
  THEN [err |-> TRUE, list |-> <<>>]
  ELSE [err |-> FALSE,
        list |-> [i \in 1..Len(elems) |-> ModelInfo(elems[i].id, elems[i].owner)]]

\* Lines 116-120: json.Unmarshal into struct{ Data []ModelInfo }.
UnmarshalDataObject(body) ==
  CASE body.k = "object" /\ body.data = "array" -> UnmarshalModels(body.elems)
    [] body.k = "object" /\ body.data = "absent" -> [err |-> FALSE, list |-> <<>>]
    [] body.k = "null" -> [err |-> FALSE, list |-> <<>>]
    [] OTHER -> [err |-> TRUE, list |-> <<>>]

\* Lines 126-127: json.Unmarshal into []ModelInfo.
UnmarshalModelArray(body) ==
  CASE body.k = "array" -> UnmarshalModels(body.elems)
    [] body.k = "null" -> [err |-> FALSE, list |-> <<>>]
    [] OTHER -> [err |-> TRUE, list |-> <<>>]

\* Lines 133-134: json.Unmarshal into []string; an object is a type error.
UnmarshalNameArray(body) ==
  CASE body.k = "array" ->
         IF \E i \in 1..Len(body.elems) : body.elems[i].t = "obj"
         THEN [err |-> TRUE, list |-> <<>>]
         ELSE [err |-> FALSE, list |-> [i \in 1..Len(body.elems) |-> body.elems[i].id]]
    [] body.k = "null" -> [err |-> FALSE, list |-> <<>>]
    [] OTHER -> [err |-> TRUE, list |-> <<>>]

\* The mutant lets a strategy that parsed an empty list end the search.
StrategyYieldsWhenParsed(r) == ~r.err

\* Lines 120, 127 and 134: err == nil && len(...) > 0.
StrategyYields(r) == ~r.err /\ Len(r.list) > 0

\* Lines 113-160.  Strategy 3 builds a ModelInfo per name, lines 135-146.
parseModelsResponse(body) ==
  LET r1 == UnmarshalDataObject(body)
      r2 == UnmarshalModelArray(body)
      r3 == UnmarshalNameArray(body)
  IN IF StrategyYields(r1) THEN [err |-> FALSE, models |-> r1.list, strategy |-> 1]
     ELSE IF StrategyYields(r2) THEN [err |-> FALSE, models |-> r2.list, strategy |-> 2]
     ELSE IF StrategyYields(r3)
     THEN [err |-> FALSE,
           models |-> [i \in 1..Len(r3.list) |-> ModelInfo(r3.list[i], "github")],
           strategy |-> 3]
     ELSE [err |-> TRUE, models |-> <<>>, strategy |-> 0]

\* The mutant keeps the last entry of each identifier.
RECURSIVE deduplicateModelsKeepingLast(_)
deduplicateModelsKeepingLast(models) ==
  IF models = <<>> THEN <<>>
  ELSE IF \E j \in 2..Len(models) : models[j].ID = models[1].ID
  THEN deduplicateModelsKeepingLast(Tail(models))
  ELSE <<models[1]>> \o deduplicateModelsKeepingLast(Tail(models))

\* Lines 165-171: the loop over models with the seen map.
RECURSIVE DedupLoop(_, _, _)
DedupLoop(models, seen, result) ==
  IF models = <<>> THEN result
  ELSE IF models[1].ID \in seen
  THEN DedupLoop(Tail(models), seen, result)
  ELSE DedupLoop(Tail(models), seen \cup {models[1].ID}, Append(result, models[1]))

\* Lines 162-174.
deduplicateModels(models) == DedupLoop(models, {}, <<>>)

\* What an endpoint answers: makeRequest fails, or a body arrives.
Failed == [status |-> "fail", body |-> Body("invalid", "absent", <<>>)]
Arrived(body) == [status |-> "ok", body |-> body]

EndpointReplies ==
  {Failed,
   Arrived(Body("object", "array", <<>>)),
   Arrived(Body("object", "array", <<Obj("b", "o1")>>)),
   Arrived(Body("array", "absent", <<Obj("a", "o1"), Obj("b", "o1"), Obj("a", "o2")>>)),
   Arrived(Body("array", "absent", <<Str("c"), Str("c")>>))}

\* Lines 86-110: makeRequest, then parseModelsResponse.
tryModelsEndpoint(reply) ==
  IF reply.status = "fail" THEN [err |-> TRUE, models |-> <<>>]
  ELSE LET r == parseModelsResponse(reply.body)
       IN [err |-> r.err, models |-> r.models]

\* The mutant takes whatever the first endpoint answered.
EndpointWinsAlways(r) == TRUE

\* Line 72: err == nil && len(models) > 0.
EndpointWins(r) == ~r.err /\ Len(r.models) > 0

\* The mutant hands on what fetchModelsFromMultipleSources returned.
GetAvailableModelsPropagating(fetch) ==
  [err |-> fetch.err, models |-> fetch.models]

\* Lines 15-29: the models when the fetch returned some without error,
\* otherwise an empty list; the error is nil either way.
GetAvailableModels(fetch) ==
  IF ~fetch.err /\ Len(fetch.models) > 0
  THEN [err |-> FALSE, models |-> fetch.models]
  ELSE [err |-> FALSE, models |-> <<>>]

NoBody == Body("invalid", "absent", <<>>)
NoParse == [done |-> FALSE, err |-> FALSE, models |-> <<>>, strategy |-> 0]
NoModels == [done |-> FALSE, err |-> FALSE, models |-> <<>>, from |-> 0]
At(at, i) == [at |-> at, i |-> i]

\* GetAvailableModels has returned r; from is the endpoint whose reply the
\* models were parsed from, 0 when there is none.
Returned(r, from) == [done |-> TRUE, err |-> r.err, models |-> r.models, from |-> from]

PsIdle == psBody = NoBody /\ psOut = NoParse
MdIdle ==
  /\ mdIn = [auth |-> FALSE, replies |-> [i \in 1..NumEndpoints |-> Failed]]
  /\ mdPc = At("idle", 0)
  /\ mdReq = <<>>
  /\ mdOut = NoModels


\* ------------------------------------------------------ stream reassembly
\* A reply body is a string of atoms: the line feed, the text "data: ", JSON
\* objects whose first choice has the text "a" or "b", a JSON object with no
\* choices, text that opens an object and is not JSON, "[DONE]", and a space.
StreamLines ==
  {<<>>, <<"data: ">>, <<"Ja">>, <<"Ja", "data: ">>, <<"data: ", " ", "Ja">>,
   <<"data: ", "Ja">>, <<"data: ", "Jb">>, <<"data: ", "Jnone">>, <<"data: ", "Jbad">>,
   <<"data: ", "DONE">>, <<"data: ", "Ja", "Jb">>}

\* strings.Join(lines, "\n").
RECURSIVE Join(_)
Join(lines) ==
  IF Len(lines) = 1 THEN lines[1] ELSE lines[1] \o << "\n" >> \o Join(Tail(lines))

\* Every body of one to MaxLines lines; the empty body is the empty line.
StreamBodies == {Join(q) : q \in SeqsUpTo(StreamLines, MaxLines) \ {<<>>}}

\* The atoms whose first byte is "{".
OpensObject(a) == a \in {"Ja", "Jb", "Jnone", "Jbad"}

\* Line 91: strings.HasPrefix(line, "data: {").
HasDataPrefix(line) == Len(line) >= 2 /\ line[1] = "data: " /\ OpensObject(line[2])

\* Lines 94-98: json.Unmarshal into a map; text after the object is an error.
UnmarshalChunk(jsonData) ==
  IF Len(jsonData) = 1 /\ jsonData[1] \in {"Ja", "Jb", "Jnone"}
  THEN [err |-> FALSE, data |-> jsonData[1]]
  ELSE [err |-> TRUE, data |-> "Jbad"]

\* Lines 100-106: choices[0]["text"] when it is there and a string.
FirstChoiceText(data) ==
  CASE data = "Ja" -> <<"a">>
    [] data = "Jb" -> <<"b">>
    [] OTHER -> <<>>

\* Lines 91-107: what one line adds to the result.
ChunkText(line) ==
  IF HasDataPrefix(line)
  THEN LET r == UnmarshalChunk(Tail(line))
       IN IF r.err THEN <<>> ELSE FirstChoiceText(r.data)
  ELSE <<>>

\* The mutant gives up at the first marked line that does not decode.
RECURSIVE StreamLoopAborting(_, _)
StreamLoopAborting(lines, result) ==
  IF lines = <<>> THEN result
  ELSE IF HasDataPrefix(lines[1]) /\ UnmarshalChunk(Tail(lines[1])).err
  THEN result
  ELSE StreamLoopAborting(Tail(lines), result \o ChunkText(lines[1]))

\* Line 90: the loop over the lines with the strings.Builder.
RECURSIVE StreamLoop(_, _)
StreamLoop(lines, result) ==
  IF lines = <<>> THEN result
  ELSE StreamLoop(Tail(lines), result \o ChunkText(lines[1]))

\* The mutant reports a reply without text as an error.
parseStreamingResponseStrict(responseText) ==
  LET text == StreamLoop(Split(responseText, "\n"), <<>>)
  IN [text |-> text, err |-> text = <<>>]

\* completions.go lines 87-111.
parseStreamingResponse(responseText) ==
  [text |-> StreamLoop(Split(responseText, "\n"), <<>>), err |-> FALSE]

NoStream == [done |-> FALSE, text |-> <<>>, err |-> FALSE]
StIdle == stBody = <<>> /\ stOut = NoStream

\* ------------------------------------------------------------ makeRequest
\* What the transport does with the one request: httpClient.Do fails, or a
\* response arrives whose body io.ReadAll reads or fails to read.
Transports ==
  [do : BOOLEAN, status : {200, 204, 399, 400, 404, 500}, read : BOOLEAN,
   body : {<<>>, <<"x">>}, payload : BOOLEAN]

\* The mutant lets status 400 through.
StatusIsErrorAbove(status) == status > HTTPErrorStatus

\* client.go line 332: resp.StatusCode >= 400.
StatusIsError(status) == status >= HTTPErrorStatus

NoResult == [done |-> FALSE, err |-> "none", status |-> 0, body |-> <<>>]
MrIdle ==
  /\ mrIn = [do |-> FALSE, status |-> 200, read |-> FALSE, body |-> <<>>, payload |-> FALSE]
  /\ mrPc = "idle"
  /\ mrCalls = 0
  /\ mrOut = NoResult

\* ------------------------------------------------------------------ Setup
\* Who runs GetSessionToken, and through it Setup: main before the server
\* listens (main.go:46), the goroutine of StartTokenRefresh (main.go:52), or
\* the goroutine net/http serves a request on.
SetupCallers == {"main", "refresher", "handler"}

\* What the device-code endpoint answers: the request fails, the body does
\* not parse, or it parses, its interval field absent (Nil) or a number.
DeviceReplies ==
  { [ok |-> FALSE, parses |-> FALSE, interval |-> Nil],
    [ok |-> TRUE, parses |-> FALSE, interval |-> Nil] }
  \cup { [ok |-> TRUE, parses |-> TRUE, interval |-> i] :
           i \in {Nil, <<0>>, <<1>>, <<5>>, <<-1>>} }

\* json.Unmarshal into DeviceCodeResponse.Interval, an int: an absent field
\* leaves it zero.
UnmarshalInterval(reply) == IF reply.interval = Nil THEN 0 ELSE reply.interval[1]

\* time.NewTicker(d) panics unless d is positive.
NewTickerPanics(d) == d <= 0

\* What one turn of the polling loop can come to, whatever ctx is.
SetupOutcomes == {"cancelled", "failed", "unparseable", "token", "pending", "denied", "empty"}

SuIdle ==
  /\ suIn = [caller |-> "main", reply |-> [ok |-> FALSE, parses |-> FALSE, interval |-> Nil]]
  /\ suPc = "idle"
  /\ suReplies = <<>>
  /\ suErr = "none"

\* ------------------------------------------------------------ error texts
\* Strings are sequences of atoms; fmt.Sprintf and fmt.Errorf concatenate.

\* The credentials a run starts with: where the access credential is (in
\* memory, in the token file, nowhere), its text, and the stored session
\* credential.  One text of each holds a line feed.
Held(where, access, session) == [where |-> where, access |-> access, session |-> session]
AccessTexts == { <<"ghoA">>, <<"ghoB">>, <<"gho", "\n", "C">> }
SessionTexts == { <<"tidA">>, <<"tidB">>, <<"tid", "\n", "C">> }
Credentials ==
  { Held("none", <<>>, s) : s \in SessionTexts \cup {<<>>} }
  \cup { Held(w, a, s) : w \in {"memory", "file"}, a \in AccessTexts,
                         s \in SessionTexts \cup {<<>>} }

\* The first run's credentials; the second run's are any that are present
\* where the first run's are.
FirstRuns ==
  { c \in Credentials : c.access \in {<<>>, <<"ghoA">>} /\ c.session \in {<<>>, <<"tidA">>} }
SamePresence(c, d) ==
  /\ c.where = d.where
  /\ (c.session = <<>>) = (d.session = <<>>)

\* What a server does with a request: the connection fails, or a response
\* arrives with a status and a body; parses says whether the body is the
\* JSON the caller unmarshals.
Answer(kind, status, body, parses) ==
  [kind |-> kind, status |-> status, body |-> body, parses |-> parses]
Answers ==
  { Answer("refused", 0, <<>>, FALSE),
    Answer("response", 401, <<"bad credentials">>, FALSE),
    Answer("response", 200, <<"<html>">>, FALSE),
    Answer("response", 200, <<"tidNew">>, TRUE) }

\* What Setup's polling comes to.
SetupEnds == {"cancelled", "token", "denied"}

\* The servers' side of a run, the same for both runs: whether isTokenValid
\* holds, whether the prompt is too long, the answers of the device-code
\* endpoint, the session-token endpoint and the Copilot endpoints, and how
\* the polling ends.
Environments ==
  [valid : BOOLEAN, long : BOOLEAN, device : Answers \ {Answer("response", 200, <<"<html>">>, FALSE)},
   exchange : Answers, api : Answers \ {Answer("response", 200, <<"<html>">>, FALSE)},
   poll : SetupEnds]

\* The functions of the core that return an error.
CoreOps == {"Setup", "GetSessionToken", "GetCompletion", "fetchModelsFromMultipleSources",
            "tryModelsEndpoint", "testSessionTokenWithCompletions"}

\* net/http's check of a header value (httpguts.ValidHeaderFieldValue).
ValidHeaderFieldValue(v) == \A i \in 1..Len(v) : v[i] # "\n"

\* url.Error.Error(): the method, the URL and the cause.
URLError(method, url, cause) == <<method, " ", url, ": ">> \o cause

\* The error of encoding/json for a body that is not the JSON expected.
JSONError == <<"invalid character '<' looking for beginning of value">>

\* The mutant puts the Authorization header into the text of line 333.
makeRequestEchoingHeaders(method, url, auth, answer) ==
  IF ~ValidHeaderFieldValue(auth)
  THEN Some(URLError(method, url,
                     <<"net/http: invalid header field value for ", "Authorization">>))
  ELSE IF answer.kind = "refused"
  THEN Some(URLError(method, url, <<"connection refused">>))
  ELSE IF StatusIsError(answer.status)
  THEN Some(<<"HTTP ", ToString(answer.status), ": ">> \o answer.body \o auth)
  ELSE Nil

\* client.go lines 292-337, makeRequest's error: Nil, or Some(text).
\* httpClient.Do refuses a header value that is not valid, naming the
\* header and not its value; otherwise it fails with the transport's cause
\* (line 323), or the status is an error (line 333).
makeRequestError(method, url, auth, answer) ==
  IF ~ValidHeaderFieldValue(auth)
  THEN Some(URLError(method, url,
                     <<"net/http: invalid header field value for ", "Authorization">>))
  ELSE IF answer.kind = "refused"
  THEN Some(URLError(method, url, <<"connection refused">>))
  ELSE IF StatusIsError(answer.status)
  THEN Some(<<"HTTP ", ToString(answer.status), ": ">> \o answer.body)
  ELSE Nil

\* fmt.Errorf(prefix + ": %w", err) over an optional error.
Wrap(prefix, err) == IF err = Nil THEN Nil ELSE Some(<<prefix>> \o err[1])

\* pkg/errors: the Message of each APIError.
AuthenticationMessage(m) == <<"Authentication failed: ">> \o m
ValidationMessage(m) == <<"Request validation failed: ">> \o m
CopilotAPIMessage(m) == <<"GitHub Copilot API error: ">> \o m

\* What a call returns here: its error, and the session credential the
\* client holds afterwards.
Outcome(err, session) == [err |-> err, session |-> session]

\* Setup, lines 111-174.
SetupError(env) ==
  LET e == makeRequestError("POST", "DeviceCodeURL", <<>>, env.device)
  IN IF e # Nil THEN Wrap("device code request failed: ", e)
     ELSE IF ~env.device.parses
     THEN Some(<<"failed to parse device code response: ">> \o JSONError)
     ELSE CASE env.poll = "cancelled" -> Some(<<"context canceled">>)
            [] env.poll = "denied" -> Some(<<"authentication error: ", "access_denied">>)
            [] OTHER -> Nil

\* GetSessionToken, lines 186-229.
GetSessionTokenOutcome(env, c) ==
  IF c.where = "none" THEN Outcome(SetupError(env), c.session)
  ELSE LET access == IF c.where = "file" THEN TrimSpace(c.access) ELSE c.access
           e == makeRequestError("GET", "SessionTokenURL", <<"token ">> \o access,
                                 env.exchange)
       IN IF e # Nil THEN Outcome(Wrap("session token request failed: ", e), c.session)
          ELSE IF ~env.exchange.parses
          THEN Outcome(Some(<<"failed to parse session token response: ">> \o JSONError),
                       c.session)
          ELSE Outcome(Nil, env.exchange.body)

\* isTokenValid and GetSessionToken as GetCompletion and the model discovery
\* call them.
EnsureToken(env, c) ==
  IF env.valid THEN Outcome(Nil, c.session) ELSE GetSessionTokenOutcome(env, c)

\* testSessionTokenWithCompletions, part_000 lines 176-199.
TestSessionTokenError(env, session) ==
  LET e == makeRequestError("POST", "CompletionsURL", <<"Bearer ">> \o session, env.api)
  IN IF e = Nil THEN Nil ELSE Some(<<"invalid session token: ">> \o e[1])

\* tryModelsEndpoint, part_000 lines 86-110.
TryModelsEndpointError(env, session) ==
  LET e == makeRequestError("GET", "ModelsURL", <<"Bearer ">> \o session, env.api)
  IN IF e # Nil THEN e
     ELSE IF ~env.api.parses THEN Some(<<"unable to parse response from ", "ModelsURL">>)
     ELSE Nil

\* GetCompletion, completions.go lines 24-84.
GetCompletionOutcome(env, c) ==
  IF env.long
  THEN Outcome(Some(ValidationMessage(<<"Prompt too long: ", ToString(MaxPromptLength + 1),
                                        " characters (max: ", ToString(MaxPromptLength),
                                        ")">>)),
               c.session)
  ELSE LET t == EnsureToken(env, c)
       IN IF t.err # Nil THEN Outcome(Some(AuthenticationMessage(t.err[1])), t.session)
          ELSE IF t.session = <<>>
          THEN Outcome(Some(AuthenticationMessage(<<"No session token available">>)),
                       t.session)
          ELSE LET e == makeRequestError("POST", "CompletionsURL",
                                         <<"Bearer ">> \o t.session, env.api)
               IN IF e = Nil THEN Outcome(Nil, t.session)
                  ELSE Outcome(Some(CopilotAPIMessage(<<"Completion request failed: ">>
                                                      \o e[1])), t.session)

\* fetchModelsFromMultipleSources, part_000 lines 31-83: the test's error
\* and each endpoint's are logged, not returned.
FetchModelsOutcome(env, c) ==
  LET t == EnsureToken(env, c)
  IN IF t.err # Nil THEN Outcome(Wrap("authentication failed: ", t.err), t.session)
     ELSE IF TryModelsEndpointError(env, t.session) = Nil THEN Outcome(Nil, t.session)
     ELSE Outcome(Some(<<"no models available from any server endpoint">>), t.session)

\* The error of one run of a core operation.
CoreOutcome(o, env, c) ==
  CASE o = "Setup" -> Outcome(SetupError(env), c.session)
    [] o = "GetSessionToken" -> GetSessionTokenOutcome(env, c)
    [] o = "GetCompletion" -> GetCompletionOutcome(env, c)
    [] o = "fetchModelsFromMultipleSources" -> FetchModelsOutcome(env, c)
    [] o = "tryModelsEndpoint" -> Outcome(TryModelsEndpointError(env, c.session), c.session)
    [] OTHER -> Outcome(TestSessionTokenError(env, c.session), c.session)

NoErrors == [done |-> FALSE, a |-> Outcome(Nil, <<>>), b |-> Outcome(Nil, <<>>)]
ErIdle ==
  /\ erIn = [op |-> "Setup",
             env |-> [valid |-> FALSE, long |-> FALSE,
                      device |-> Answer("refused", 0, <<>>, FALSE),
                      exchange |-> Answer("refused", 0, <<>>, FALSE),
                      api |-> Answer("refused", 0, <<>>, FALSE), poll |-> "cancelled"],
             a |-> Held("none", <<>>, <<>>), b |-> Held("none", <<>>, <<>>)]
  /\ erOut = NoErrors

\* NewClient: nothing held in memory, the lock free.
ClientInit ==
  /\ accessToken = <<>>
  /\ sessionToken = <<>>
  /\ expiresAt = Nil
  /\ writer = "none"
  /\ readers = {}
  /\ now = 0
  /\ pc = [g \in Goroutines |-> "idle"]
  /\ op = [g \in Goroutines |-> "none"]
  /\ valid = [g \in Goroutines |-> FALSE]
  /\ tok = [g \in Goroutines |-> <<>>]
  /\ gstErr = [g \in Goroutines |-> "none"]
  /\ attempts = [g \in Goroutines |-> 0]
  /\ local = [g \in Goroutines |-> <<>>]
  /\ ret = [g \in Goroutines |-> "none"]
  /\ polls = 0
  /\ replies = <<>>
  /\ ctx = [g \in Goroutines |-> "live"]
  /\ nextTick = 0
  /\ lifetimeOk = FALSE
  /\ wroteExp = [g \in Goroutines |-> FALSE]
  /\ stored = [g \in Goroutines |-> FALSE]
  /\ validAtLock = [g \in Goroutines |-> FALSE]
  /\ expFresh = FALSE
  /\ lastTok = <<>>
  /\ req = [g \in Goroutines |-> Nil]
  /\ sent = [g \in Goroutines |-> Nil]

Init ==
  /\ ClientInit
  /\ tokenFile \in TokenFiles
  /\ issued = ExchangeTokens
  /\ requests = PlainRequests
  /\ exToken = <<>>
  /\ exOut = NoOut
  /\ PsIdle /\ StIdle /\ MdIdle /\ MrIdle /\ SuIdle /\ ErIdle

\* ------------------------------------------------------------ isTokenValid
\* The mutant reports a credential valid up to and including the instant
\* now + buffer = expiry.
isTokenValidAtBoundary ==
  IF sessionToken = <<>> \/ expiresAt = Nil THEN FALSE
  ELSE now + TokenRefreshBufferSeconds <= expiresAt[1]

\* The mutant compares the wrong way round.
isTokenValidReversed ==
  IF sessionToken = <<>> \/ expiresAt = Nil THEN FALSE
  ELSE expiresAt[1] < now + TokenRefreshBufferSeconds

\* Lines 283-288: time.Now().Add(buffer).Before(*c.expiresAt).
isTokenValid ==
  IF sessionToken = <<>> \/ expiresAt = Nil THEN FALSE
  ELSE now + TokenRefreshBufferSeconds < expiresAt[1]


\* ------------------------------------------------------------ the context
\* The mutant sees the context of any goroutine.
CtxDoneOfAnyone(g) == \E h \in Goroutines : ctx[h] = "done"

\* ctx.Done() as the goroutine's own call sees it: Setup's select (line
\* 136), the refresher's select (line 346) and every makeRequest, which
\* builds its request with the caller's ctx (line 303).
CtxDone(g) == ctx[g] = "done"

\* The places where a goroutine looks at its ctx.  A cancellation that
\* happens while the goroutine is elsewhere is seen when it gets to one of
\* them, so it is taken to happen there.
CtxPoints == {"setup_dev", "setup_poll", "gst_req", "send", "ref_select"}

\* The caller's context is cancelled or its deadline passes.  The context
\* of a request is r.Context(); context.Background() is never done.
Cancel(g) ==
  /\ pc[g] \in CtxPoints
  /\ ctx[g] = "live"
  /\ ctx' = [ctx EXCEPT ![g] = "done"]
  /\ UNCHANGED <<clientVars, callVars, gstVars, histVars, exVars, nextTick, issued, refHist,
                 now, polls, replies, reqVars>>

\* The mutant goes on polling, and can get a credential, with ctx done.
PollOutcomesIgnoringCtx(g) ==
  IF ctx[g] = "done"
  THEN {"cancelled", "failed", "unparseable", "token", "pending", "denied", "empty"}
  ELSE {"failed", "unparseable", "token", "pending", "denied", "empty"}

\* What one turn of Setup's loop can come to.  With ctx done the select
\* takes ctx.Done(), or the ticker's case, whose request then fails.
PollOutcomes(g) ==
  IF CtxDone(g) THEN {"cancelled", "failed"}
  ELSE {"failed", "unparseable", "token", "pending", "denied", "empty"}

\* The mutant treats authorization_pending like any other error code.
PollRetriedButPending(reply) == reply \in {"failed", "unparseable", "empty"}

\* The poll outcomes after which the loop goes round again: the two
\* "continue" of lines 146-155, authorization_pending (line 168), and a
\* reply with neither access_token nor error, which falls out of both ifs.
PollRetried(reply) == reply \in {"failed", "unparseable", "pending", "empty"}

\* What the session-token request of line 208 can come to.
ExchangeOutcomes(g) ==
  IF CtxDone(g) THEN {<<"failed">>}
  ELSE {<<"failed">>, <<"unparseable">>} \cup issued

\* ------------------------------------------------------------ the callers
\* GetCompletion, lines 24-32: the prompt length check, then isTokenValid.
StartCompletion(g) ==
  /\ pc[g] = "idle"
  /\ op' = [op EXCEPT ![g] = "completion"]
  /\ \E r \in requests :
       /\ req' = [req EXCEPT ![g] = Some(r)]
       /\ IF PromptTooLong(r)
          THEN /\ ret' = [ret EXCEPT ![g] = "validation"]
               /\ pc' = [pc EXCEPT ![g] = "done"]
          ELSE /\ ret' = ret
               /\ pc' = [pc EXCEPT ![g] = "itv_rlock"]
  /\ UNCHANGED <<clientVars, gstVars, histVars, exVars, envVars, refHist, now, polls, replies,
                 requests, sent, local>>

\* fetchModelsFromMultipleSources, line 36: isTokenValid first.
StartModels(g) ==
  /\ pc[g] = "idle"
  /\ op' = [op EXCEPT ![g] = "models"]
  /\ pc' = [pc EXCEPT ![g] = "itv_rlock"]
  /\ UNCHANGED <<clientVars, gstVars, histVars, exVars, envVars, refHist, now, polls, replies, reqVars, local, ret>>

\* handleDebugToken: GetSessionToken whatever the credential's state is.
StartDebug(g) ==
  /\ pc[g] = "idle"
  /\ op' = [op EXCEPT ![g] = "debug"]
  /\ pc' = [pc EXCEPT ![g] = "gst_lock"]
  /\ UNCHANGED <<clientVars, gstVars, histVars, exVars, envVars, refHist, now, polls, replies, reqVars, local, ret>>

\* isTokenValid, line 280: c.mutex.RLock().
ItvRLock(g) ==
  /\ pc[g] = "itv_rlock"
  /\ writer = "none"
  /\ readers' = readers \cup {g}
  /\ pc' = [pc EXCEPT ![g] = "itv_check"]
  /\ UNCHANGED <<accessToken, sessionToken, expiresAt, writer, tokenFile, gstVars, histVars,
                 exVars, envVars, refHist, now, polls, replies, reqVars, op, local, ret>>

\* isTokenValid, lines 281-288, and the caller's branch on its result: a
\* valid credential is used as it is (the refresher goes back to its
\* select), an invalid one leads to GetSessionToken.
ItvCheck(g) ==
  /\ pc[g] = "itv_check"
  /\ valid' = [valid EXCEPT ![g] = isTokenValid]
  /\ readers' = readers \ {g}
  /\ pc' = [pc EXCEPT ![g] = IF ~isTokenValid THEN "gst_lock"
                             ELSE IF g = Refresher THEN "ref_select" ELSE "read_token"]
  /\ UNCHANGED <<accessToken, sessionToken, expiresAt, writer, tokenFile, histVars, exVars,
                 envVars, refHist, now, polls, replies, reqVars, op, local, ret, tok, gstErr,
                 attempts, wroteExp, stored, validAtLock>>

\* --------------------------------------------------------- GetSessionToken
\* The mutant's Lock does not wait for another holder of the exclusive lock.
GstLockOverWriter(g) ==
  /\ pc[g] = "gst_lock"
  /\ readers = {}
  /\ writer' = g
  /\ validAtLock' = [validAtLock EXCEPT ![g] = isTokenValid]
  /\ pc' = [pc EXCEPT ![g] = "gst_load"]
  /\ UNCHANGED <<accessToken, sessionToken, expiresAt, readers, tokenFile, histVars, exVars, envVars, refHist,
                 now, polls, replies, reqVars, op, local, ret, valid, tok, gstErr, attempts, wroteExp, stored>>

\* Line 187: c.mutex.Lock().
GstLock(g) ==
  /\ pc[g] = "gst_lock"
  /\ writer = "none"
  /\ readers = {}
  /\ writer' = g
  /\ validAtLock' = [validAtLock EXCEPT ![g] = isTokenValid]
  /\ pc' = [pc EXCEPT ![g] = "gst_load"]
  /\ UNCHANGED <<accessToken, sessionToken, expiresAt, readers, tokenFile, histVars, exVars, envVars, refHist,
                 now, polls, replies, reqVars, op, local, ret, valid, tok, gstErr, attempts, wroteExp, stored>>

\* The mutant checks the credential again once it holds the lock and
\* returns without an exchange when another caller has refreshed it.
GstLoadRecheck(g) ==
  /\ pc[g] = "gst_load"
  /\ IF isTokenValid
     THEN /\ pc' = [pc EXCEPT ![g] = "gst_unlock"]
          /\ accessToken' = accessToken
     ELSE IF accessToken = <<>>
     THEN IF ~tokenFile.readable
          THEN /\ pc' = [pc EXCEPT ![g] = "setup_dev"]
               /\ accessToken' = accessToken
          ELSE /\ accessToken' = TrimSpace(tokenFile.data)
               /\ pc' = [pc EXCEPT ![g] = "gst_req"]
     ELSE /\ pc' = [pc EXCEPT ![g] = "gst_req"]
          /\ accessToken' = accessToken
  /\ UNCHANGED <<sessionToken, expiresAt, writer, readers, tokenFile, gstVars, histVars,
                 exVars, envVars, refHist, now, polls, replies, reqVars, op, local, ret>>

\* The mutant runs Setup whenever no access credential is in memory,
\* without looking at the token file.
GstLoadSkipsFile(g) ==
  /\ pc[g] = "gst_load"
  /\ pc' = [pc EXCEPT ![g] = IF accessToken = <<>> THEN "setup_dev" ELSE "gst_req"]
  /\ UNCHANGED <<clientVars, gstVars, histVars, exVars, envVars, refHist, now, polls, replies, reqVars,
                 op, local, ret>>

\* Lines 190-200: the access credential from memory, else from the token
\* file, else "return c.Setup(ctx)".
GstLoad(g) ==
  /\ pc[g] = "gst_load"
  /\ IF accessToken = <<>>
     THEN IF ~tokenFile.readable
          THEN /\ pc' = [pc EXCEPT ![g] = "setup_dev"]
               /\ accessToken' = accessToken
          ELSE /\ accessToken' = TrimSpace(tokenFile.data)
               /\ pc' = [pc EXCEPT ![g] = "gst_req"]
     ELSE /\ pc' = [pc EXCEPT ![g] = "gst_req"]
          /\ accessToken' = accessToken
  /\ UNCHANGED <<sessionToken, expiresAt, writer, readers, tokenFile, gstVars, histVars,
                 exVars, envVars, refHist, now, polls, replies, reqVars, op, local, ret>>

\* Setup, lines 111-132: the device code request; a failed request or an
\* unparseable reply ends Setup, and with it GetSessionToken, with an error.
SetupDeviceCode(g) ==
  /\ pc[g] = "setup_dev"
  /\ \E reply \in (IF CtxDone(g) THEN {"failed"} ELSE {"ok", "failed"}) :
       IF reply = "ok"
       THEN /\ pc' = [pc EXCEPT ![g] = "setup_poll"]
            /\ gstErr' = gstErr
       ELSE /\ pc' = [pc EXCEPT ![g] = "gst_unlock"]
            /\ gstErr' = [gstErr EXCEPT ![g] = "setup"]
  /\ polls' = 0
  /\ replies' = <<>>
  /\ UNCHANGED <<clientVars, histVars, exVars, envVars, refHist, now, op, local, ret, valid, tok, attempts,
                 wroteExp, stored, validAtLock, reqVars>>

\* Setup, lines 134-173: one turn of the polling loop.  "cancelled" is the
\* select taking ctx.Done(); every other outcome is a poll of the
\* access-token endpoint (line 145) and what came of it.
SetupPoll(g) ==
  /\ pc[g] = "setup_poll"
  /\ \E reply \in PollOutcomes(g) :
       \E saved \in BOOLEAN :
         CASE reply = "cancelled" ->
                /\ saved
                /\ gstErr' = [gstErr EXCEPT ![g] = "cancelled"]
                /\ pc' = [pc EXCEPT ![g] = "gst_unlock"]
                /\ UNCHANGED <<accessToken, tokenFile, polls, replies, reqVars>>
           [] reply = "token" ->
                /\ accessToken' = <<"gho">>
                /\ tokenFile' = IF saved THEN [readable |-> TRUE, data |-> <<"gho">>]
                                ELSE tokenFile
                /\ polls' = polls + 1
                /\ replies' = Append(replies, reply)
                /\ gstErr' = [gstErr EXCEPT ![g] = "none"]
                /\ pc' = [pc EXCEPT ![g] = "gst_unlock"]
           [] PollRetried(reply) ->
                /\ saved
                /\ polls < MaxPolls
                /\ polls' = polls + 1
                /\ replies' = Append(replies, reply)
                /\ UNCHANGED <<accessToken, tokenFile, gstErr, pc>>
           [] OTHER ->
                /\ saved
                /\ polls' = polls + 1
                /\ replies' = Append(replies, reply)
                /\ gstErr' = [gstErr EXCEPT ![g] = "setup"]
                /\ pc' = [pc EXCEPT ![g] = "gst_unlock"]
                /\ UNCHANGED <<accessToken, tokenFile>>
  /\ UNCHANGED <<sessionToken, expiresAt, writer, readers, histVars, exVars, envVars, refHist,
                 now, op, local, ret, valid, tok, attempts, wroteExp, stored, validAtLock,
                 reqVars>>

\* The mutant drops the stored session credential when the exchange request fails.
GstRequestWipesOnFailure(g) ==
  /\ pc[g] = "gst_req"
  /\ attempts[g] < SessionTokenRetries
  /\ attempts' = [attempts EXCEPT ![g] = attempts[g] + 1]
  /\ \E reply \in ExchangeOutcomes(g) :
       CASE reply = <<"failed">> ->
              /\ gstErr' = [gstErr EXCEPT ![g] = "request"]
              /\ pc' = [pc EXCEPT ![g] = "gst_unlock"]
              /\ tok' = tok
              /\ sessionToken' = <<>>
         [] reply = <<"unparseable">> ->
              /\ gstErr' = [gstErr EXCEPT ![g] = "parse"]
              /\ pc' = [pc EXCEPT ![g] = "gst_unlock"]
              /\ tok' = tok
              /\ sessionToken' = sessionToken
         [] OTHER ->
              /\ tok' = [tok EXCEPT ![g] = reply]
              /\ pc' = [pc EXCEPT ![g] = "gst_exp"]
              /\ gstErr' = gstErr
              /\ sessionToken' = sessionToken
  /\ UNCHANGED <<accessToken, expiresAt, writer, readers, tokenFile, histVars, exVars, envVars, refHist, now,
                 polls, replies, reqVars, op, local, ret, valid, wroteExp, stored, validAtLock>>

\* The mutant forgets the access credential when the exchange request fails.
GstRequestClearsOnFailure(g) ==
  /\ pc[g] = "gst_req"
  /\ attempts[g] < SessionTokenRetries
  /\ attempts' = [attempts EXCEPT ![g] = attempts[g] + 1]
  /\ \E reply \in ExchangeOutcomes(g) :
       CASE reply = <<"failed">> ->
              /\ gstErr' = [gstErr EXCEPT ![g] = "request"]
              /\ pc' = [pc EXCEPT ![g] = "gst_unlock"]
              /\ tok' = tok
              /\ accessToken' = <<>>
         [] reply = <<"unparseable">> ->
              /\ gstErr' = [gstErr EXCEPT ![g] = "parse"]
              /\ pc' = [pc EXCEPT ![g] = "gst_unlock"]
              /\ tok' = tok
              /\ accessToken' = accessToken
         [] OTHER ->
              /\ tok' = [tok EXCEPT ![g] = reply]
              /\ pc' = [pc EXCEPT ![g] = "gst_exp"]
              /\ gstErr' = gstErr
              /\ accessToken' = accessToken
  /\ UNCHANGED <<sessionToken, expiresAt, writer, readers, tokenFile, histVars, exVars, envVars, refHist, now,
                 polls, replies, reqVars, op, local, ret, valid, wroteExp, stored, validAtLock>>

\* Lines 203-216: the one turn of the "retry" loop that runs.  Every path
\* through the body returns, so retries-- and line 228 are never reached.
GstRequest(g) ==
  /\ pc[g] = "gst_req"
  /\ attempts[g] < SessionTokenRetries
  /\ attempts' = [attempts EXCEPT ![g] = attempts[g] + 1]
  /\ \E reply \in ExchangeOutcomes(g) :
       CASE reply = <<"failed">> ->
              /\ gstErr' = [gstErr EXCEPT ![g] = "request"]
              /\ pc' = [pc EXCEPT ![g] = "gst_unlock"]
              /\ tok' = tok
         [] reply = <<"unparseable">> ->
              /\ gstErr' = [gstErr EXCEPT ![g] = "parse"]
              /\ pc' = [pc EXCEPT ![g] = "gst_unlock"]
              /\ tok' = tok
         [] OTHER ->
              /\ tok' = [tok EXCEPT ![g] = reply]
              /\ pc' = [pc EXCEPT ![g] = "gst_exp"]
              /\ gstErr' = gstErr
  /\ UNCHANGED <<clientVars, histVars, exVars, envVars, refHist, now, polls, replies, reqVars, op, local, ret, valid, wroteExp,
                 stored, validAtLock>>

\* Lines 219-221: c.expiresAt is assigned only when an expiry was extracted.
GstStoreExp(g) ==
  /\ pc[g] = "gst_exp"
  /\ LET exp == ExpOfIssued[tok[g]].exp
     IN IF exp # Nil
        THEN /\ expiresAt' = exp
             /\ wroteExp' = [wroteExp EXCEPT ![g] = TRUE]
             /\ lifetimeOk' = (exp[1] - now > RefreshInterval)
        ELSE UNCHANGED <<expiresAt, wroteExp, refHist>>
  /\ pc' = [pc EXCEPT ![g] = "gst_tok"]
  /\ UNCHANGED <<accessToken, sessionToken, writer, readers, tokenFile, histVars, exVars, envVars, now,
                 polls, replies, reqVars, op, local, ret, valid, tok, gstErr, attempts, stored, validAtLock>>

\* Lines 223-225: c.sessionToken = tokenData.Token; return nil.
GstStoreTok(g) ==
  /\ pc[g] = "gst_tok"
  /\ sessionToken' = tok[g]
  /\ stored' = [stored EXCEPT ![g] = TRUE]
  /\ expFresh' = wroteExp[g]
  /\ lastTok' = tok[g]
  /\ gstErr' = [gstErr EXCEPT ![g] = "none"]
  /\ pc' = [pc EXCEPT ![g] = "gst_unlock"]
  /\ UNCHANGED <<accessToken, expiresAt, writer, readers, tokenFile, exVars, envVars, refHist, now, polls, replies, reqVars, op,
                 local, ret, valid, tok, attempts, wroteExp, validAtLock>>

\* The mutant returns without releasing the lock.
GstUnlockKeepsLock(g) ==
  /\ pc[g] = "gst_unlock"
  /\ polls' = 0
  /\ replies' = <<>>
  /\ pc' = [pc EXCEPT ![g] = "gst_ret"]
  /\ UNCHANGED <<clientVars, gstVars, histVars, exVars, envVars, refHist, now, op, local, ret,
                 reqVars>>

\* Line 188: the deferred c.mutex.Unlock().
GstUnlock(g) ==
  /\ pc[g] = "gst_unlock"
  /\ writer' = "none"
  /\ polls' = 0
  /\ replies' = <<>>
  /\ pc' = [pc EXCEPT ![g] = "gst_ret"]
  /\ UNCHANGED <<accessToken, sessionToken, expiresAt, readers, tokenFile, gstVars, histVars,
                 exVars, envVars, refHist, now, op, local, ret, reqVars>>

\* The mutant's refresher returns when a refresh has failed.
GstReturnStopsOnError(g) ==
  /\ pc[g] = "gst_ret"
  /\ IF g = Refresher
     THEN /\ ret' = ret
          /\ pc' = [pc EXCEPT ![g] = IF gstErr[g] # "none" THEN "ref_stopped" ELSE "ref_select"]
     ELSE IF gstErr[g] # "none"
     THEN /\ ret' = [ret EXCEPT ![g] = IF op[g] = "debug" THEN "internal" ELSE "authentication"]
          /\ pc' = [pc EXCEPT ![g] = "done"]
     ELSE /\ ret' = ret
          /\ pc' = [pc EXCEPT ![g] = IF op[g] = "debug" THEN "cst_rlock" ELSE "read_token"]
  /\ valid' = [valid EXCEPT ![g] = FALSE]
  /\ tok' = [tok EXCEPT ![g] = <<>>]
  /\ gstErr' = [gstErr EXCEPT ![g] = "none"]
  /\ attempts' = [attempts EXCEPT ![g] = 0]
  /\ wroteExp' = [wroteExp EXCEPT ![g] = FALSE]
  /\ stored' = [stored EXCEPT ![g] = FALSE]
  /\ validAtLock' = [validAtLock EXCEPT ![g] = FALSE]
  /\ UNCHANGED <<clientVars, histVars, exVars, envVars, refHist, now, polls, replies, reqVars, op,
                 local>>

\* What each caller does with GetSessionToken's result (completions.go
\* lines 33-35, the model discovery's lines 38-41, handleDebugToken);
\* GetSessionToken's frame is gone.  StartTokenRefresh, lines 351-353, logs
\* an error and goes on with its loop.
GstReturn(g) ==
  /\ pc[g] = "gst_ret"
  /\ IF g = Refresher
     THEN /\ ret' = ret
          /\ pc' = [pc EXCEPT ![g] = "ref_select"]
     ELSE IF gstErr[g] # "none"
     THEN /\ ret' = [ret EXCEPT ![g] = IF op[g] = "debug" THEN "internal" ELSE "authentication"]
          /\ pc' = [pc EXCEPT ![g] = "done"]
     ELSE /\ ret' = ret
          /\ pc' = [pc EXCEPT ![g] = IF op[g] = "debug" THEN "cst_rlock" ELSE "read_token"]
  /\ valid' = [valid EXCEPT ![g] = FALSE]
  /\ tok' = [tok EXCEPT ![g] = <<>>]
  /\ gstErr' = [gstErr EXCEPT ![g] = "none"]
  /\ attempts' = [attempts EXCEPT ![g] = 0]
  /\ wroteExp' = [wroteExp EXCEPT ![g] = FALSE]
  /\ stored' = [stored EXCEPT ![g] = FALSE]
  /\ validAtLock' = [validAtLock EXCEPT ![g] = FALSE]
  /\ UNCHANGED <<clientVars, histVars, exVars, envVars, refHist, now, polls, replies, reqVars, op, local>>

\* ------------------------------------------------- the use of the credential
\* What a read of c.sessionToken without the lock can return.  A read that
\* overlaps another goroutine's assignment at line 223 is a data race: it
\* sees the old string, the new one, or a torn string header.
UnlockedRead ==
  {sessionToken}
    \cup {tok[h] : h \in {p \in Goroutines : pc[p] = "gst_tok"}}
    \cup {<<"torn">> : h \in {p \in Goroutines : pc[p] = "gst_tok"}}

\* completions.go lines 38-41 and the model discovery's line 47:
\* sessionToken := c.sessionToken, with no lock held.
ReadToken(g) ==
  /\ pc[g] = "read_token"
  /\ \E v \in UnlockedRead :
       /\ local' = [local EXCEPT ![g] = v]
       /\ IF op[g] = "completion" /\ v = <<>>
          THEN /\ ret' = [ret EXCEPT ![g] = "authentication"]
               /\ pc' = [pc EXCEPT ![g] = "done"]
          ELSE /\ ret' = ret
               /\ pc' = [pc EXCEPT ![g] = "send"]
  /\ valid' = [valid EXCEPT ![g] = FALSE]
  /\ UNCHANGED <<clientVars, histVars, exVars, envVars, refHist, now, polls, replies, reqVars, op, tok, gstErr, attempts,
                 wroteExp, stored, validAtLock>>

\* The upstream call carrying "Bearer " + sessionToken (completions.go
\* lines 43-83; the model discovery's lines 50-83).
Send(g) ==
  /\ pc[g] = "send"
  /\ \E reply \in (IF CtxDone(g) THEN {"upstream"} ELSE {"ok", "upstream"}) :
       ret' = [ret EXCEPT ![g] = reply]
  /\ sent' = [sent EXCEPT ![g] = IF op[g] = "completion"
                                   THEN Some(copilotReq(req[g][1])) ELSE Nil]
  /\ pc' = [pc EXCEPT ![g] = "done"]
  /\ UNCHANGED <<clientVars, gstVars, histVars, exVars, envVars, refHist, now, polls, replies,
                 requests, req, op, local>>

\* GetCurrentSessionToken, line 94: c.mutex.RLock().
CstRLock(g) ==
  /\ pc[g] = "cst_rlock"
  /\ writer = "none"
  /\ readers' = readers \cup {g}
  /\ pc' = [pc EXCEPT ![g] = "cst_read"]
  /\ UNCHANGED <<accessToken, sessionToken, expiresAt, writer, tokenFile, gstVars, histVars,
                 exVars, envVars, refHist, now, polls, replies, reqVars, op, local, ret>>

\* GetCurrentSessionToken, lines 95-96: the read, then the deferred RUnlock.
CstRead(g) ==
  /\ pc[g] = "cst_read"
  /\ local' = [local EXCEPT ![g] = sessionToken]
  /\ readers' = readers \ {g}
  /\ ret' = [ret EXCEPT ![g] = "ok"]
  /\ pc' = [pc EXCEPT ![g] = "done"]
  /\ UNCHANGED <<accessToken, sessionToken, expiresAt, writer, tokenFile, gstVars, histVars,
                 exVars, envVars, refHist, now, polls, replies, reqVars, op>>

\* The handler returns.
Done(g) ==
  /\ pc[g] = "done"
  /\ pc' = [pc EXCEPT ![g] = "idle"]
  /\ op' = [op EXCEPT ![g] = "none"]
  /\ local' = [local EXCEPT ![g] = <<>>]
  /\ ret' = [ret EXCEPT ![g] = "none"]
  /\ ctx' = [ctx EXCEPT ![g] = "live"]
  /\ req' = [req EXCEPT ![g] = Nil]
  /\ sent' = [sent EXCEPT ![g] = Nil]
  /\ UNCHANGED <<clientVars, gstVars, histVars, exVars, nextTick, issued, refHist, now, polls,
                 replies, requests>>

\* time.Now() advances.
Tick ==
  /\ now + TickStep <= MaxNow
  /\ now' = now + TickStep
  /\ UNCHANGED <<clientVars, callVars, gstVars, histVars, exVars, envVars, refHist, polls, replies, reqVars>>

Next ==
  \/ \E g \in Procs : StartCompletion(g)
  \/ \E g \in Procs : StartModels(g)
  \/ \E g \in Procs : StartDebug(g)
  \/ \E g \in Procs : ItvRLock(g)
  \/ \E g \in Procs : ItvCheck(g)
  \/ \E g \in Procs : GstLock(g)
  \/ \E g \in Procs : GstLoad(g)
  \/ \E g \in Procs : SetupDeviceCode(g)
  \/ \E g \in Procs : SetupPoll(g)
  \/ \E g \in Procs : GstRequest(g)
  \/ \E g \in Procs : GstStoreExp(g)
  \/ \E g \in Procs : GstStoreTok(g)
  \/ \E g \in Procs : GstUnlock(g)
  \/ \E g \in Procs : GstReturn(g)
  \/ \E g \in Procs : ReadToken(g)
  \/ \E g \in Procs : Send(g)
  \/ \E g \in Procs : CstRLock(g)
  \/ \E g \in Procs : CstRead(g)
  \/ \E g \in Procs : Done(g)
  \/ \E g \in Procs : Cancel(g)
  \/ Tick

Spec == Init /\ [][Next]_vars

\* ------------------------------------------------- the background refresher
\* main.go line 52: go copilotClient.StartTokenRefresh(context.Background()),
\* and StartTokenRefresh's line 341, which creates the ticker.  The function
\* takes any context; main's is one that is never done.
StartTokenRefresh ==
  /\ pc[Refresher] = "idle"
  /\ pc' = [pc EXCEPT ![Refresher] = "ref_select"]
  /\ op' = [op EXCEPT ![Refresher] = "refresh"]
  /\ nextTick' = now + RefreshInterval
  /\ \E c \in {"background", "live"} : ctx' = [ctx EXCEPT ![Refresher] = c]
  /\ UNCHANGED <<clientVars, gstVars, histVars, exVars, issued, refHist, now, polls, replies, reqVars,
                 local, ret>>

\* Lines 348-349: the select takes a tick and isTokenValid is called.  The
\* ticker holds one tick for a slow receiver and drops the others, so the
\* tick after this one is the first multiple of the interval still ahead.
RefreshTick ==
  /\ pc[Refresher] = "ref_select"
  /\ now >= nextTick
  /\ nextTick' = nextTick + RefreshInterval * (((now - nextTick) \div RefreshInterval) + 1)
  /\ valid' = [valid EXCEPT ![Refresher] = FALSE]
  /\ pc' = [pc EXCEPT ![Refresher] = "itv_rlock"]
  /\ UNCHANGED <<clientVars, histVars, exVars, ctx, issued, refHist, now, polls, replies, reqVars, op,
                 local, ret, tok, gstErr, attempts, wroteExp, stored, validAtLock>>

\* Lines 346-347: the select takes ctx.Done() and the goroutine returns.
RefreshStop ==
  /\ pc[Refresher] = "ref_select"
  /\ CtxDone(Refresher)
  /\ pc' = [pc EXCEPT ![Refresher] = "ref_stopped"]
  /\ UNCHANGED <<clientVars, gstVars, histVars, exVars, envVars, refHist, now, polls,
                 replies, reqVars, op, local, ret>>

\* time.Now() advances while the refresher waits: in its select with no
\* tick due, in Setup's select, or after it has returned.
Elapse ==
  /\ now + RefreshStep <= MaxRefreshNow
  /\ pc[Refresher] \in {"ref_select", "setup_poll", "ref_stopped"}
  /\ pc[Refresher] = "ref_select" => now < nextTick
  /\ now' = now + RefreshStep
  /\ UNCHANGED <<clientVars, callVars, gstVars, histVars, exVars, envVars, refHist, polls,
                 replies, reqVars>>

\* The refresher next to one goroutine that serves completion requests.
RefreshProcs == {Refresher, "h1"}

RefreshInit ==
  /\ ClientInit
  /\ tokenFile \in TokenFiles
  /\ issued = RefreshTokens
  /\ requests = PlainRequests
  /\ exToken = <<>>
  /\ exOut = NoOut
  /\ PsIdle /\ StIdle /\ MdIdle /\ MrIdle /\ SuIdle /\ ErIdle

RefreshNext ==
  \/ StartTokenRefresh
  \/ RefreshTick
  \/ RefreshStop
  \/ Elapse
  \/ StartCompletion("h1")
  \/ ReadToken("h1")
  \/ Send("h1")
  \/ Done("h1")
  \/ \E g \in RefreshProcs : Cancel(g)
  \/ \E g \in RefreshProcs : ItvRLock(g)
  \/ \E g \in RefreshProcs : ItvCheck(g)
  \/ \E g \in RefreshProcs : GstLock(g)
  \/ \E g \in RefreshProcs : GstLoad(g)
  \/ \E g \in RefreshProcs : SetupDeviceCode(g)
  \/ \E g \in RefreshProcs : SetupPoll(g)
  \/ \E g \in RefreshProcs : GstRequest(g)
  \/ \E g \in RefreshProcs : GstStoreExp(g)
  \/ \E g \in RefreshProcs : GstStoreTok(g)
  \/ \E g \in RefreshProcs : GstUnlock(g)
  \/ \E g \in RefreshProcs : GstReturn(g)

RefreshSpec == RefreshInit /\ [][RefreshNext]_vars

\* ------------------------------------------------- the lock under scheduling
\* What a goroutine does while it holds the lock, shared or exclusive.  The
\* Go scheduler runs every goroutine that can run, and every upstream call
\* and every poll of Setup returns.
HolderStep(g) ==
  \/ ItvCheck(g)
  \/ GstLoad(g)
  \/ SetupDeviceCode(g)
  \/ SetupPoll(g)
  \/ GstRequest(g)
  \/ GstStoreExp(g)
  \/ GstStoreTok(g)
  \/ GstUnlock(g)

\* sync.RWMutex hands the lock to a goroutine blocked in Lock or RLock once
\* it is free: a waiter is not passed over for ever.
LockFairness ==
  \A g \in RefreshProcs :
    /\ WF_vars(HolderStep(g))
    /\ SF_vars(GstLock(g))
    /\ SF_vars(ItvRLock(g))

LockSpec == RefreshInit /\ [][RefreshNext]_vars /\ LockFairness

\* ------------------------------------------- expiry extraction on its own
\* extractExpFromJWT applied to every string of at most MaxTokLen atoms.
ExtractInit ==
  /\ ClientInit
  /\ tokenFile = [readable |-> FALSE, data |-> <<>>]
  /\ issued = ExchangeTokens
  /\ requests = PlainRequests
  /\ exToken \in ExTokens
  /\ exOut = NoOut
  /\ PsIdle /\ StIdle /\ MdIdle /\ MrIdle /\ SuIdle /\ ErIdle

Extract ==
  /\ ~exOut.done
  /\ exOut' = [exp |-> extractExpFromJWT(exToken).exp,
               legacy |-> extractExpFromJWT(exToken).legacy,
               done |-> TRUE]
  /\ UNCHANGED <<clientVars, callVars, gstVars, histVars, exToken, fnVars, mdVars, mrVars, suVars,
                 erVars,
                 envVars, refHist, now, polls, replies, reqVars>>

ExtractNext == Extract

ExtractSpec == ExtractInit /\ [][ExtractNext]_vars

\* ------------------------------------------- model discovery on its own
\* The variables no action of the single-function specifications changes.
restVars == <<clientVars, callVars, gstVars, histVars, envVars, refHist, now, polls, replies,
              reqVars>>

\* Lines 36-45: isTokenValid and GetSessionToken, here by their outcome.  A
\* failure ends fetchModelsFromMultipleSources with an error.
DiscAuth ==
  /\ mdPc.at = "start"
  /\ IF mdIn.auth
     THEN /\ mdPc' = At("test", 0)
          /\ mdOut' = mdOut
     ELSE /\ mdPc' = At("done", 0)
          /\ mdOut' = Returned(GetAvailableModels([err |-> TRUE, models |-> <<>>]), 0)
  /\ UNCHANGED <<restVars, suVars, erVars, exToken, exOut, fnVars, mrVars, mdIn, mdReq>>

\* Lines 50-56: testSessionTokenWithCompletions; its result is only logged.
DiscTest ==
  /\ mdPc.at = "test"
  /\ mdReq' = Append(mdReq, 0)
  /\ mdPc' = At("loop", 1)
  /\ UNCHANGED <<restVars, suVars, erVars, exToken, exOut, fnVars, mrVars, mdIn, mdOut>>

\* Lines 70-78: one turn of the loop over the endpoints.
DiscTry ==
  /\ mdPc.at = "loop"
  /\ mdPc.i <= NumEndpoints
  /\ mdReq' = Append(mdReq, mdPc.i)
  /\ LET r == tryModelsEndpoint(mdIn.replies[mdPc.i])
     IN IF EndpointWins(r)
        THEN /\ mdOut' = Returned(GetAvailableModels(
                                       [err |-> FALSE,
                                        models |-> deduplicateModels(r.models)]), mdPc.i)
             /\ mdPc' = At("done", 0)
        ELSE /\ mdOut' = mdOut
             /\ mdPc' = At("loop", mdPc.i + 1)
  /\ UNCHANGED <<restVars, suVars, erVars, exToken, exOut, fnVars, mrVars, mdIn>>

\* Lines 80-82: no endpoint answered with models.
DiscExhausted ==
  /\ mdPc.at = "loop"
  /\ mdPc.i > NumEndpoints
  /\ mdOut' = Returned(GetAvailableModels([err |-> TRUE, models |-> <<>>]), 0)
  /\ mdPc' = At("done", 0)
  /\ UNCHANGED <<restVars, suVars, erVars, exToken, exOut, fnVars, mrVars, mdIn, mdReq>>

\* parseModelsResponse applied to every body of ParseBodies.
Parse ==
  /\ ~psOut.done
  /\ psOut' = LET r == parseModelsResponse(psBody)
               IN [done |-> TRUE, err |-> r.err, models |-> r.models,
                   strategy |-> r.strategy]
  /\ UNCHANGED <<restVars, suVars, erVars, exToken, exOut, psBody, stBody, stOut, mdVars, mrVars>>

DiscoveryInit ==
  /\ ClientInit
  /\ tokenFile = [readable |-> FALSE, data |-> <<>>]
  /\ issued = ExchangeTokens
  /\ requests = PlainRequests
  /\ exToken = <<>>
  /\ exOut = NoOut
  /\ PsIdle /\ StIdle /\ MrIdle /\ SuIdle /\ ErIdle
  /\ mdIn \in [auth : BOOLEAN, replies : [1..NumEndpoints -> EndpointReplies]]
  /\ mdPc = At("start", 0)
  /\ mdReq = <<>>
  /\ mdOut = NoModels

DiscoveryNext == DiscAuth \/ DiscTest \/ DiscTry \/ DiscExhausted

DiscoverySpec == DiscoveryInit /\ [][DiscoveryNext]_vars

ParseInit ==
  /\ ClientInit
  /\ tokenFile = [readable |-> FALSE, data |-> <<>>]
  /\ issued = ExchangeTokens
  /\ requests = PlainRequests
  /\ exToken = <<>>
  /\ exOut = NoOut
  /\ StIdle /\ MdIdle /\ MrIdle /\ SuIdle /\ ErIdle
  /\ psBody \in ParseBodies
  /\ psOut = NoParse

ParseNext == Parse

ParseSpec == ParseInit /\ [][ParseNext]_vars

\* --------------------------------------------- stream reassembly on its own
\* parseStreamingResponse applied to every body of at most MaxLines lines.
StreamInit ==
  /\ ClientInit
  /\ tokenFile = [readable |-> FALSE, data |-> <<>>]
  /\ issued = ExchangeTokens
  /\ requests = PlainRequests
  /\ exToken = <<>>
  /\ exOut = NoOut
  /\ PsIdle /\ MdIdle /\ MrIdle /\ SuIdle /\ ErIdle
  /\ stBody \in StreamBodies
  /\ stOut = NoStream

Stream ==
  /\ ~stOut.done
  /\ stOut' = LET r == parseStreamingResponse(stBody)
               IN [done |-> TRUE, text |-> r.text, err |-> r.err]
  /\ UNCHANGED <<restVars, suVars, erVars, exToken, exOut, psBody, psOut, stBody, mdVars, mrVars>>

StreamNext == Stream

StreamSpec == StreamInit /\ [][StreamNext]_vars

\* ------------------------------------------------- makeRequest on its own
\* client.go lines 293-319: the body is marshalled when there is one, the
\* request is built and the headers are set.  json.Marshal does not fail on
\* the maps of strings and numbers the callers pass, nor does
\* http.NewRequestWithContext on their method and URL constants.
MrBuild ==
  /\ mrPc = "build"
  /\ mrPc' = "do"
  /\ UNCHANGED <<restVars, suVars, erVars, exToken, exOut, fnVars, mdVars, mrIn, mrCalls, mrOut>>

\* Lines 321-325: c.httpClient.Do(req), once.
MrDo ==
  /\ mrPc = "do"
  /\ mrCalls' = mrCalls + 1
  /\ IF mrIn.do
     THEN /\ mrPc' = "read"
          /\ mrOut' = mrOut
     ELSE /\ mrPc' = "done"
          /\ mrOut' = [done |-> TRUE, err |-> "transport", status |-> 0, body |-> <<>>]
  /\ UNCHANGED <<restVars, suVars, erVars, exToken, exOut, fnVars, mdVars, mrIn>>

\* Lines 327-336: io.ReadAll, then the status code.
MrRead ==
  /\ mrPc = "read"
  /\ mrPc' = "done"
  /\ mrOut' = IF ~mrIn.read
              THEN [done |-> TRUE, err |-> "transport", status |-> 0, body |-> <<>>]
              ELSE IF StatusIsError(mrIn.status)
              THEN [done |-> TRUE, err |-> "http", status |-> mrIn.status,
                    body |-> mrIn.body]
              ELSE [done |-> TRUE, err |-> "none", status |-> 0, body |-> mrIn.body]
  /\ UNCHANGED <<restVars, suVars, erVars, exToken, exOut, fnVars, mdVars, mrIn, mrCalls>>

MakeRequestInit ==
  /\ ClientInit
  /\ tokenFile = [readable |-> FALSE, data |-> <<>>]
  /\ issued = ExchangeTokens
  /\ requests = PlainRequests
  /\ exToken = <<>>
  /\ exOut = NoOut
  /\ PsIdle /\ StIdle /\ MdIdle /\ SuIdle /\ ErIdle
  /\ mrIn \in Transports
  /\ mrPc = "build"
  /\ mrCalls = 0
  /\ mrOut = NoResult

MakeRequestNext == MrBuild \/ MrDo \/ MrRead

MakeRequestSpec == MakeRequestInit /\ [][MakeRequestNext]_vars

\* ------------------------------------------------ GetCompletion on its own
\* One handler calling GetCompletion with every request of
\* CompletionRequests, whatever the credential's state is and whatever the
\* token file holds.
CompletionInit ==
  /\ ClientInit
  /\ tokenFile \in TokenFiles \cup BlankTokenFiles
  /\ issued = ExchangeTokens
  /\ requests = CompletionRequests
  /\ exToken = <<>>
  /\ exOut = NoOut
  /\ PsIdle /\ StIdle /\ MdIdle /\ MrIdle /\ SuIdle /\ ErIdle

Caller == "h1"

CompletionNext ==
  \/ StartCompletion(Caller)
  \/ ItvRLock(Caller)
  \/ ItvCheck(Caller)
  \/ GstLock(Caller)
  \/ GstLoad(Caller)
  \/ SetupDeviceCode(Caller)
  \/ SetupPoll(Caller)
  \/ GstRequest(Caller)
  \/ GstStoreExp(Caller)
  \/ GstStoreTok(Caller)
  \/ GstUnlock(Caller)
  \/ GstReturn(Caller)
  \/ ReadToken(Caller)
  \/ Send(Caller)
  \/ Done(Caller)
  \/ Cancel(Caller)
  \/ Tick

CompletionSpec == CompletionInit /\ [][CompletionNext]_vars

\* ------------------------------------------------------- Setup on its own
\* Setup with every reply of the device-code endpoint, run by each of its
\* callers.
suRest == <<sessionToken, expiresAt, writer, readers, callVars, gstVars, histVars, envVars,
            refHist, now, polls, replies, reqVars, exToken, exOut, fnVars, mdVars, mrVars,
            erVars>>

\* Lines 120-123: the device code request.
SuRequest ==
  /\ suPc = "request"
  /\ IF suIn.reply.ok
     THEN suPc' = "parse" /\ suErr' = suErr
     ELSE suPc' = "returned" /\ suErr' = "device code request failed"
  /\ UNCHANGED <<suRest, accessToken, tokenFile, suIn, suReplies>>

\* Lines 125-131: json.Unmarshal of the reply, and the prompt to the user.
SuParse ==
  /\ suPc = "parse"
  /\ IF suIn.reply.parses
     THEN suPc' = "ticker" /\ suErr' = suErr
     ELSE suPc' = "returned" /\ suErr' = "failed to parse device code response"
  /\ UNCHANGED <<suRest, accessToken, tokenFile, suIn, suReplies>>

\* Line 134: time.NewTicker(time.Duration(deviceData.Interval) * time.Second).
SuNewTicker ==
  /\ suPc = "ticker"
  /\ suPc' = IF NewTickerPanics(UnmarshalInterval(suIn.reply)) THEN "panic" ELSE "poll"
  /\ UNCHANGED <<suRest, accessToken, tokenFile, suIn, suReplies, suErr>>

\* Lines 137-173: one turn of the loop.
SuPoll ==
  /\ suPc = "poll"
  /\ \E reply \in SetupOutcomes :
       \E saved \in BOOLEAN :
         /\ suReplies' = Append(suReplies, reply)
         /\ CASE reply = "cancelled" ->
                  /\ saved
                  /\ suPc' = "returned"
                  /\ suErr' = "context"
                  /\ UNCHANGED <<accessToken, tokenFile>>
              [] reply = "token" ->
                  /\ accessToken' = <<"gho">>
                  /\ tokenFile' = IF saved THEN [readable |-> TRUE, data |-> <<"gho">>]
                                  ELSE tokenFile
                  /\ suPc' = "returned"
                  /\ suErr' = "none"
              [] PollRetried(reply) ->
                  /\ saved
                  /\ Len(suReplies) < MaxPolls
                  /\ UNCHANGED <<accessToken, tokenFile, suPc, suErr>>
              [] OTHER ->
                  /\ saved
                  /\ suPc' = "returned"
                  /\ suErr' = "authentication error"
                  /\ UNCHANGED <<accessToken, tokenFile>>
  /\ UNCHANGED <<suRest, suIn>>

\* The panic leaves Setup and GetSessionToken, whose deferred Unlock runs,
\* and reaches the goroutine's first frame: net/http recovers it there for
\* a handler; in main and in the refresher's goroutine the runtime ends the
\* process.
SuUnwind ==
  /\ suPc = "panic"
  /\ suPc' = IF suIn.caller = "handler" THEN "recovered" ELSE "aborted"
  /\ UNCHANGED <<suRest, accessToken, tokenFile, suIn, suReplies, suErr>>

SetupInit ==
  /\ ClientInit
  /\ tokenFile = [readable |-> FALSE, data |-> <<>>]
  /\ issued = ExchangeTokens
  /\ requests = PlainRequests
  /\ exToken = <<>>
  /\ exOut = NoOut
  /\ PsIdle /\ StIdle /\ MdIdle /\ MrIdle /\ ErIdle
  /\ suIn \in [caller : SetupCallers, reply : DeviceReplies]
  /\ suPc = "request"
  /\ suReplies = <<>>
  /\ suErr = "none"

SetupNext == SuRequest \/ SuParse \/ SuNewTicker \/ SuPoll \/ SuUnwind

SetupSpec == SetupInit /\ [][SetupNext]_vars

\* ------------------------------------------- the errors the core returns
\* Each core operation, run twice against the same servers by clients that
\* differ in the texts of their credentials.
ErrorInit ==
  /\ ClientInit
  /\ tokenFile = [readable |-> FALSE, data |-> <<>>]
  /\ issued = ExchangeTokens
  /\ requests = PlainRequests
  /\ exToken = <<>>
  /\ exOut = NoOut
  /\ PsIdle /\ StIdle /\ MdIdle /\ MrIdle /\ SuIdle
  /\ \E o \in CoreOps, env \in Environments, c \in FirstRuns, d \in Credentials :
       /\ SamePresence(c, d)
       /\ erIn = [op |-> o, env |-> env, a |-> c, b |-> d]
  /\ erOut = NoErrors

RunBoth ==
  /\ ~erOut.done
  /\ erOut' = [done |-> TRUE,
               a |-> CoreOutcome(erIn.op, erIn.env, erIn.a),
               b |-> CoreOutcome(erIn.op, erIn.env, erIn.b)]
  /\ UNCHANGED <<restVars, suVars, exToken, exOut, fnVars, mdVars, mrVars, erIn>>

ErrorNext == RunBoth

ErrorSpec == ErrorInit /\ [][ErrorNext]_vars





\* ------------------------------------------------------------------ claims
\* The callers whose GetSessionToken call follows an isTokenValid that
\* returned false.
ObservedInvalid(g) == op[g] \in {"completion", "models"} /\ ~valid[g]

\* C1: whenever GetSessionToken returns without error, that same call sent
\* a session-token exchange and stored its result, also when it ran Setup.
C1_SuccessMeansExchanged ==
  \A g \in Procs :
    (pc[g] = "gst_ret" /\ gstErr[g] = "none") => (attempts[g] >= 1 /\ stored[g])

\* C2: outside an update, a stored session credential is paired with an
\* expiry that the same GetSessionToken call assigned.
C2_ExpiryBelongsToCredential ==
  (writer = "none" /\ sessionToken # <<>>) => (expiresAt # Nil /\ expFresh)

\* C3: GetSessionToken reports a failed exchange request only after it has
\* used up its budget of attempts.
C3_ErrorOnlyAfterAllAttempts ==
  \A g \in Procs :
    (pc[g] = "gst_ret" /\ gstErr[g] = "request") => attempts[g] = SessionTokenRetries

\* C4: the value isTokenValid returns is TRUE exactly when a session
\* credential is stored, an expiry is stored and now + refreshBuffer is
\* strictly before that expiry.
C4_ValidIff ==
  [][\A g \in Procs :
       (pc[g] = "itv_check" /\ pc'[g] # "itv_check") =>
         (valid'[g] <=> (/\ sessionToken # <<>>
                         /\ expiresAt # Nil
                         /\ now + TokenRefreshBufferSeconds < expiresAt[1]))]_vars

\* C4 witness: a check that returned false at the instant now + buffer = expiry.
C4_Witness ==
  \E g \in Procs :
    /\ pc[g] = "gst_lock"
    /\ op[g] = "completion"
    /\ ~valid[g]
    /\ sessionToken # <<>>
    /\ expiresAt # Nil
    /\ now + TokenRefreshBufferSeconds = expiresAt[1]

\* C5: the credential goes from invalid to valid only in a step of
\* GetSessionToken that assigns the expiry or the session credential; time
\* passing, Setup and the readers never make it valid again.
C5_InvalidUntilRefreshed ==
  [][(~isTokenValid /\ isTokenValid') =>
       \E g \in Procs : /\ writer = g
                        /\ pc[g] \in {"gst_exp", "gst_tok"}
                        /\ pc'[g] # pc[g]]_vars

\* C5 witness: a check has returned false for a credential whose expiry has
\* passed, and another caller holds the lock for the refresh.
C5_Witness ==
  \E g \in Procs :
    /\ pc[g] = "gst_lock"
    /\ ObservedInvalid(g)
    /\ sessionToken # <<>>
    /\ expiresAt # Nil
    /\ now + TokenRefreshBufferSeconds > expiresAt[1]
    /\ writer \notin {"none", g}

\* The middle segment of a token with exactly two dots.
Dots(token) == {i \in 1..Len(token) : token[i] = "."}
Middle(token) ==
  LET a == CHOOSE i \in Dots(token) : \A j \in Dots(token) : i <= j
      b == CHOOSE i \in Dots(token) : \A j \in Dots(token) : j <= i
  IN SubSeq(token, a + 1, b - 1)

\* A token of three segments whose middle segment is the base64url text of
\* a JSON object with an integer "exp", with none, some or all of the '='
\* that pad it to a multiple of 4 characters.
WellFormedJWT(token) ==
  /\ Cardinality(Dots(token)) = 2
  /\ Middle(token) # <<>>
  /\ PayloadJSON(Middle(token)[1]).hasExp
  /\ PayloadJSON(Middle(token)[1]).expIsInt
  /\ AtomLen(Middle(token)[1]) % 4 # 1
  /\ \E k \in 0..2 :
       /\ Middle(token) = <<Middle(token)[1]>> \o RepeatEq(k)
       /\ k <= (4 - (AtomLen(Middle(token)[1]) % 4)) % 4

\* C6: for a well-formed three-segment token the result is the "exp" of the
\* middle segment, and the legacy scan is not used.
C6_JWTExpiry ==
  (exOut.done /\ WellFormedJWT(exToken)) =>
    (exOut.exp = Some(PayloadJSON(Middle(exToken)[1]).exp) /\ ~exOut.legacy)

\* C6 witness: such a token whose middle segment needed one '=' of padding.
C6_Witness ==
  /\ exOut.done
  /\ WellFormedJWT(exToken)
  /\ Middle(exToken) = <<"PExp150">>
  /\ exOut.exp = Some(150)

\* C7: the result is the legacy scan's in each tier-1 failure: not three
\* segments, a middle segment that fails to decode, or a decoded object
\* without an expiry field.
C7_FallbackToLegacy ==
  (/\ exOut.done
   /\ \/ Cardinality(Dots(exToken)) # 2
      \/ ~DecodeString(PadPayload(Middle(exToken))).ok
      \/ ~DecodeString(PadPayload(Middle(exToken))).bytes.hasExp)
    => (exOut.legacy /\ exOut.exp = extractExpValueLegacy(exToken))

\* C8: right after a credential without any extractable expiry has been
\* stored, the stored expiry is the instant of the exchange plus the
\* fallback lifetime (the clock may have advanced since the assignment).
C8_FallbackLifetime ==
  \A g \in Procs :
    (pc[g] = "gst_unlock" /\ stored[g] /\ extractExpFromJWT(tok[g]).exp = Nil) =>
      /\ expiresAt # Nil
      /\ expiresAt[1] >= DefaultTokenLifetimeSeconds
      /\ expiresAt[1] <= now + DefaultTokenLifetimeSeconds

\* C9: the session credential and its expiry are read only with the lock
\* held shared and written only with it held exclusively, and no read
\* without the lock happens while a GetSessionToken call is writing.
C9_AccessUnderLock ==
  /\ \A g \in Procs : pc[g] \in {"itv_check", "cst_read", "read_token"} => g \in readers
  /\ \A g \in Procs : pc[g] \in {"gst_exp", "gst_tok"} => writer = g
  /\ ~\E g, h \in Procs : /\ pc[g] = "read_token"
                          /\ g \notin readers
                          /\ pc[h] \in {"gst_exp", "gst_tok"}

C11_ReadersNotBlockedBySetup ==
  \A g, h \in Procs :
    (pc[g] = "setup_poll" /\ pc[h] \in {"itv_rlock", "cst_rlock"})
      => (ENABLED ItvRLock(h) \/ ENABLED CstRLock(h))

OnlyPending(rs) == \A i \in 1..Len(rs) : rs[i] = "pending"

Last(rs) == rs[Len(rs)]

\* C12: as long as every reply was authorization_pending Setup is still
\* polling, unless its context was done; when N such replies are followed by one carrying an access
\* credential, Setup returns nil after N+1 polls with that credential as
\* the access credential in memory.
C12_PendingThenToken ==
  /\ (replies # <<>> /\ OnlyPending(replies)) =>
       \E g \in Procs : /\ writer = g
                        /\ polls = Len(replies)
                        /\ \/ pc[g] = "setup_poll"
                           \/ pc[g] = "gst_unlock" /\ gstErr[g] = "cancelled"
  /\ (replies # <<>> /\ Last(replies) = "token"
        /\ OnlyPending(SubSeq(replies, 1, Len(replies) - 1))) =>
       \E g \in Procs : /\ writer = g
                        /\ pc[g] = "gst_unlock"
                        /\ gstErr[g] = "none"
                        /\ polls = Len(replies)
                        /\ accessToken = <<"gho">>

\* C12 witness: two pending replies, then the credential, three polls.
C12_Witness ==
  \E g \in Procs :
    /\ pc[g] = "gst_unlock"
    /\ gstErr[g] = "none"
    /\ replies = <<"pending", "pending", "token">>
    /\ polls = 3
    /\ accessToken = <<"gho">>

\* C13: Setup goes on polling only after authorization_pending; after any
\* other outcome without a credential it has returned.
C13_OnlyPendingRetried ==
  \A g \in Procs : pc[g] = "setup_poll" => OnlyPending(replies)

\* C14: with the caller's context done, Setup returns nothing but the
\* cancellation error, and neither the polling before it nor the return
\* with that error changes the access credential in memory or the token
\* file.
C14_CancelLeavesCredential ==
  [][\A g \in Procs :
       pc[g] = "setup_poll" =>
         /\ (ctx[g] = "done" /\ pc'[g] # "setup_poll") => gstErr'[g] = "cancelled"
         /\ (gstErr'[g] = "cancelled" \/ pc'[g] = "setup_poll") =>
              (accessToken' = accessToken /\ tokenFile' = tokenFile)]_vars

\* C14 witness: Setup has returned the cancellation error after polling
\* once; no access credential is in memory and the file is as unreadable
\* as it was.
C14_Witness ==
  \E g \in Procs :
    /\ pc[g] = "gst_unlock"
    /\ gstErr[g] = "cancelled"
    /\ ctx[g] = "done"
    /\ replies = <<"pending">>
    /\ accessToken = <<>>
    /\ ~tokenFile.readable

\* C15: when Setup returns nil the token file holds exactly the access
\* credential in memory.
C15_SuccessMeansPersisted ==
  \A g \in Procs :
    (pc[g] = "gst_unlock" /\ gstErr[g] = "none" /\ replies # <<>> /\ Last(replies) = "token")
      => tokenFile = [readable |-> TRUE, data |-> accessToken]

\* C16: Setup is not polling any more once the device code's validity
\* window has elapsed since the ticker was created (the k-th poll comes no
\* sooner than k intervals after it), also for a caller whose context is
\* never done.
C16_StopsWhenDeviceCodeExpires ==
  \A g \in Goroutines :
    (pc[g] = "setup_poll" /\ ctx[g] = "background")
      => polls * DeviceCode.Interval < DeviceCode.ExpiresIn

\* C17: Setup is entered only from GetSessionToken's load step, with no
\* access credential in memory and an unreadable token file; and a call
\* whose isTokenValid returned true goes on to use the credential and
\* sends no exchange until it returns.
C17_SetupOnlyWithoutCredential ==
  [][\A g \in Procs :
       /\ (pc[g] # "setup_dev" /\ pc'[g] = "setup_dev") =>
            (pc[g] = "gst_load" /\ accessToken = <<>> /\ ~tokenFile.readable)
       /\ (pc[g] = "gst_load" /\ (accessToken # <<>> \/ tokenFile.readable)) =>
            pc'[g] \in {"gst_load", "gst_req"}
       /\ (pc[g] = "itv_check" /\ valid'[g]) => pc'[g] = "read_token"
       /\ pc[g] \in {"read_token", "send", "done"} =>
            (pc'[g] \in {"read_token", "send", "done", "idle"} /\ attempts'[g] = attempts[g])]_vars

\* C17 witness: Setup begins, with nothing in memory and no readable file,
\* while the other caller is on its way to the lock.
C17_Witness ==
  \E g, h \in Procs :
    /\ pc[g] = "setup_dev"
    /\ accessToken = <<>>
    /\ ~tokenFile.readable
    /\ pc[h] = "gst_lock"

\* ------------------------------------------------- the background refresher
\* GetSessionToken ran Setup instead of the exchange.
RanSetup(g) == replies # <<>> \/ gstErr[g] \in {"setup", "cancelled"}

C19_ReplacedAheadOfExpiry ==
  (/\ pc[Refresher] = "ref_select"
   /\ valid[Refresher]
   /\ lifetimeOk
   /\ sessionToken # <<>>
   /\ expiresAt # Nil) => now < expiresAt[1]

\* C20: the refresher has returned only with its own context done, a
\* GetSessionToken call has the cancellation error only with its caller's
\* context done, and a Setup or an exchange of a caller whose context is
\* not done can get a credential and cannot be cancelled, whatever the
\* other contexts are.
C20_OwnContextOnly ==
  /\ pc[Refresher] = "ref_stopped" => ctx[Refresher] = "done"
  /\ \A g \in RefreshProcs :
       /\ gstErr[g] = "cancelled" => ctx[g] = "done"
       /\ (pc[g] = "setup_poll" /\ ctx[g] # "done") =>
            ("token" \in PollOutcomes(g) /\ "cancelled" \notin PollOutcomes(g))
       /\ (pc[g] = "gst_req" /\ ctx[g] # "done") => issued \subseteq ExchangeOutcomes(g)

\* C20 witness: the request's context was cancelled during its own Setup;
\* the refresher then ran its Setup to success with that context done.
C20_Witness ==
  /\ ctx["h1"] = "done"
  /\ pc["h1"] \in {"gst_ret", "done"}
  /\ ctx[Refresher] # "done"
  /\ pc[Refresher] = "gst_unlock"
  /\ gstErr[Refresher] = "none"
  /\ replies # <<>>
  /\ Last(replies) = "token"

\* A reply body from which one of the three strategies gets entries: an
\* object whose "data" holds objects, an array of objects, an array of
\* strings (null counts as either).
DataEntries(b) ==
  b.k = "object" /\ b.data = "array" /\ b.elems # <<>>
    /\ \A i \in 1..Len(b.elems) : b.elems[i].t # "str"
ArrayEntries(b) ==
  b.k = "array" /\ b.elems # <<>> /\ \A i \in 1..Len(b.elems) : b.elems[i].t # "str"
NameEntries(b) ==
  b.k = "array" /\ b.elems # <<>> /\ \A i \in 1..Len(b.elems) : b.elems[i].t # "obj"
HasEntries(reply) ==
  reply.status = "ok"
    /\ (DataEntries(reply.body) \/ ArrayEntries(reply.body) \/ NameEntries(reply.body))

\* The candidate endpoints requested so far, in the order of the requests.
Probes == SelectSeq(mdReq, LAMBDA x : x > 0)

\* C21: the endpoints are requested in their fixed order; once the call
\* has returned with a credential at hand, endpoint i was requested exactly
\* when no earlier endpoint answered with entries, and the result holds the
\* identifiers of the first endpoint that did, and of no other.
C21_FirstAnsweringEndpoint ==
  /\ \A k \in 1..Len(Probes) : Probes[k] = k
  /\ (mdOut.done /\ mdIn.auth) =>
       /\ \A i \in 1..NumEndpoints :
            (i <= Len(Probes)) <=> (\A j \in 1..(i - 1) : ~HasEntries(mdIn.replies[j]))
       /\ IF \E i \in 1..NumEndpoints : HasEntries(mdIn.replies[i])
          THEN /\ mdOut.from = Len(Probes)
               /\ HasEntries(mdIn.replies[mdOut.from])
               /\ {mdOut.models[k].ID : k \in 1..Len(mdOut.models)}
                    = {mdIn.replies[mdOut.from].body.elems[k].id :
                         k \in 1..Len(mdIn.replies[mdOut.from].body.elems)}
          ELSE mdOut.from = 0 /\ mdOut.models = <<>>

\* The first endpoint failed, the second answered an empty list, the third
\* answered with entries and so did the fourth, which was never requested.
C21_Witness ==
  /\ mdOut.done
  /\ mdOut.from = 3
  /\ mdIn.replies[1].status = "fail"
  /\ mdIn.replies[2] = Arrived(Body("object", "array", <<>>))
  /\ HasEntries(mdIn.replies[4])
  /\ mdIn.replies[4] # mdIn.replies[3]

\* C22: parseModelsResponse returns the entries of the first strategy, in
\* the order data object, array of objects, array of names, that gets at
\* least one entry; a strategy that parses to no entry does not end the
\* search, and when no strategy gets an entry the result is an error.
C22_FirstYieldingStrategy ==
  psOut.done =>
    IF DataEntries(psBody) \/ ArrayEntries(psBody) \/ NameEntries(psBody)
    THEN /\ ~psOut.err
         /\ psOut.strategy = (IF DataEntries(psBody) THEN 1
                              ELSE IF ArrayEntries(psBody) THEN 2 ELSE 3)
         /\ Len(psOut.models) = Len(psBody.elems)
         /\ \A i \in 1..Len(psBody.elems) : psOut.models[i].ID = psBody.elems[i].id
    ELSE psOut.err /\ psOut.models = <<>>

\* An array of two names, which only the third strategy reads.
C22_Witness ==
  /\ psOut.done
  /\ psOut.strategy = 3
  /\ Len(psOut.models) = 2
  /\ psBody.elems[1].t = "str"

\* C23: a returned list holds each identifier once, and its entries are the
\* first occurrences in the winning endpoint's reply, in their order there.
C23_FirstOccurrencesInOrder ==
  mdOut.done =>
    /\ \A k, l \in 1..Len(mdOut.models) :
         k # l => mdOut.models[k].ID # mdOut.models[l].ID
    /\ mdOut.from > 0 =>
         LET src == parseModelsResponse(mdIn.replies[mdOut.from].body).models
             keep == {i \in 1..Len(src) : \A j \in 1..(i - 1) : src[j].ID # src[i].ID}
             pos(k) == CHOOSE i \in keep : Cardinality({j \in keep : j < i}) = k - 1
         IN /\ Len(mdOut.models) = Cardinality(keep)
            /\ \A k \in 1..Len(mdOut.models) : mdOut.models[k] = src[pos(k)]

\* The winning reply named an identifier twice, with different owners.
C23_Witness ==
  /\ mdOut.done
  /\ mdOut.from > 0
  /\ Len(mdOut.models) = 2
  /\ Len(mdIn.replies[mdOut.from].body.elems) = 3
  /\ mdIn.replies[mdOut.from].body.elems[3].owner = "o2"

\* C24: GetAvailableModels never returns an error; without a credential, or
\* when no endpoint answers with entries, it returns the empty list, and
\* every identifier it returns was named in an endpoint's reply.
C24_DiscoveryNeverFails ==
  mdOut.done =>
    /\ ~mdOut.err
    /\ (~mdIn.auth \/ \A i \in 1..NumEndpoints : ~HasEntries(mdIn.replies[i]))
         => mdOut.models = <<>>
    /\ \A k \in 1..Len(mdOut.models) :
         \E i \in 1..NumEndpoints :
           /\ mdIn.replies[i].status = "ok"
           /\ \E e \in 1..Len(mdIn.replies[i].body.elems) :
                mdIn.replies[i].body.elems[e].id = mdOut.models[k].ID

\* Every endpoint was requested and none answered with entries.
C24_Witness ==
  /\ mdOut.done
  /\ mdIn.auth
  /\ Len(Probes) = NumEndpoints
  /\ mdIn.replies[1].status = "fail"
  /\ mdIn.replies[2].status = "ok"

\* C25: a GetCompletion call whose prompt is longer than the maximum
\* returns the validation error at once, and while its request is at hand
\* no step exchanges, authorizes, sends or changes the credentials.
C25_LongPromptRejected ==
  [][ /\ (pc[Caller] = "idle" /\ req'[Caller] # Nil
            /\ req'[Caller][1].PromptLen > MaxPromptLength)
          => (pc'[Caller] = "done" /\ ret'[Caller] = "validation")
      /\ (req[Caller] # Nil /\ req[Caller][1].PromptLen > MaxPromptLength)
          => (/\ pc[Caller] = "done"
              /\ pc'[Caller] \in {"done", "idle"}
              /\ UNCHANGED <<clientVars, gstVars, polls, replies, sent>>)
      /\ (pc[Caller] = "idle" /\ req'[Caller] # Nil
            /\ req'[Caller][1].PromptLen > MaxPromptLength)
          => UNCHANGED <<clientVars, gstVars, polls, replies, sent>> ]_vars

\* The call was rejected while an expired credential was stored.
C25_Witness ==
  /\ pc[Caller] = "done"
  /\ ret[Caller] = "validation"
  /\ req[Caller][1].PromptLen > MaxPromptLength
  /\ sessionToken # <<>>
  /\ ~isTokenValid

\* The text one line of a reply stands for: the marker is "data: " with
\* the opening brace of the object right behind it.
LineText(line) ==
  CASE line = <<"data: ", "Ja">> -> <<"a">>
    [] line = <<"data: ", "Jb">> -> <<"b">>
    [] OTHER -> <<>>

RECURSIVE ExpectedText(_)
ExpectedText(body) ==
  IF ~HasSep(body, "\n") THEN LineText(body)
  ELSE LineText(SubSeq(body, 1, FirstSep(body, "\n") - 1))
         \o ExpectedText(SubSeq(body, FirstSep(body, "\n") + 1, Len(body)))

C27_ReassemblyNeverFails ==
  stOut.done =>
    /\ ~stOut.err
    /\ (\A l \in 1..Len(Split(stBody, "\n")) : LineText(Split(stBody, "\n")[l]) = <<>>)
         => stOut.text = <<>>

\* A body of several lines, none of which yields text.
C27_Witness ==
  /\ stOut.done
  /\ stOut.text = <<>>
  /\ Len(Split(stBody, "\n")) = MaxLines
  /\ Split(stBody, "\n")[1] = <<"data: ", "DONE">>

\* C28: every completion request handed to the transport has stream set, the
\* line feed as its one stop sequence, and as max_tokens the caller's value,
\* or 1000 when that is 0.
C28_RequestShape ==
  \A g \in Procs :
    sent[g] # Nil =>
      /\ sent[g][1].stream = TRUE
      /\ sent[g][1].stop = << "\n" >>
      /\ sent[g][1].max_tokens
           = (IF req[g][1].MaxTokens = 0 THEN 1000 ELSE req[g][1].MaxTokens)

\* A request was sent for a caller who asked for no streaming and gave no
\* max_tokens.
C28_Witness ==
  /\ sent[Caller] # Nil
  /\ ~req[Caller][1].Stream
  /\ req[Caller][1].MaxTokens = 0
  /\ sent[Caller][1].max_tokens = 1000

\* C29: GetCompletion fails only with the validation error (prompt too
\* long, status 400), the authentication error (no credential, status 401,
\* and then no completion request was sent) or the upstream error (the
\* completion request failed, status 502).
C29_ThreeErrorKinds ==
  (pc[Caller] = "done" /\ op[Caller] = "completion") =>
    /\ ret[Caller] \in {"ok", "validation", "authentication", "upstream"}
    /\ ret[Caller] = "validation" =>
         (req[Caller][1].PromptLen > MaxPromptLength /\ APIError(ret[Caller]).Code = 400)
    /\ ret[Caller] = "authentication" =>
         (sent[Caller] = Nil /\ APIError(ret[Caller]).Code = 401)
    /\ ret[Caller] = "upstream" =>
         (sent[Caller] # Nil /\ APIError(ret[Caller]).Code = 502)

\* The completion request failed.
C29_Witness ==
  /\ pc[Caller] = "done"
  /\ op[Caller] = "completion"
  /\ ret[Caller] = "upstream"
  /\ ctx[Caller] = "live"

\* C30: makeRequest calls the transport once; it returns an error when the
\* transport fails, an error with the status code and the body when the
\* status is 400 or more, and the body otherwise.
C30_OneRequestNoRetry ==
  /\ mrCalls <= 1
  /\ mrOut.done =>
       /\ mrCalls = 1
       /\ IF ~mrIn.do \/ ~mrIn.read THEN mrOut.err = "transport"
          ELSE IF mrIn.status >= 400
          THEN mrOut.err = "http" /\ mrOut.status = mrIn.status /\ mrOut.body = mrIn.body
          ELSE mrOut.err = "none" /\ mrOut.body = mrIn.body

\* The reply had status 400 and a body.
C30_Witness ==
  /\ mrOut.done
  /\ mrOut.err = "http"
  /\ mrOut.status = 400
  /\ mrOut.body = <<"x">>

\* C31: a caller that reads the session credential and goes on to send it
\* either found the credential valid in this call or, after the refresh
\* it started, finds the stored credential valid.
C31_SentCredentialValid ==
  [][ \A g \in Procs :
        (pc[g] = "read_token" /\ pc'[g] = "send") => (valid[g] \/ isTokenValid) ]_vars

\* C38: no session-token exchange is sent while the access credential is
\* empty.
C38_NoExchangeWithoutCredential ==
  \A g \in Procs : attempts[g] >= 1 => accessToken # <<>>

\* C33: while a GetSessionToken call that ends in an error holds the lock,
\* the stored session credential and expiry do not change and the call has
\* assigned neither; they change only in steps of the lock's holder.
C33_ErrorLeavesPair ==
  [][ /\ \A g \in Goroutines :
           (writer = g /\ gstErr'[g] # "none")
             => (/\ sessionToken' = sessionToken
                 /\ expiresAt' = expiresAt
                 /\ ~wroteExp[g]
                 /\ ~stored[g])
      /\ (sessionToken' # sessionToken \/ expiresAt' # expiresAt)
           => (writer # "none" /\ writer' = writer) ]_vars

\* An exchange whose reply does not parse has returned its error while an
\* earlier credential and its expiry are stored.
C33_Witness ==
  \E g \in Goroutines :
    /\ pc[g] = "gst_ret"
    /\ gstErr[g] = "parse"
    /\ sessionToken # <<>>
    /\ expiresAt # Nil

\* C34: once the access credential in memory is not empty, no step changes
\* it.
C34_AccessCredentialKept ==
  [][ accessToken # <<>> => accessToken' = accessToken ]_vars

\* An exchange request has failed while the access credential is in memory,
\* and no device authorization was started.
C34_Witness ==
  \E g \in Goroutines :
    /\ pc[g] = "gst_unlock"
    /\ gstErr[g] = "request"
    /\ accessToken # <<>>
    /\ sessionToken # <<>>
    /\ replies = <<>>

\* The positions between GetSessionToken's Lock and its deferred Unlock.
InGetSessionToken ==
  {"gst_load", "setup_dev", "setup_poll", "gst_req", "gst_exp", "gst_tok", "gst_unlock"}

\* C36: at most one goroutine is inside GetSessionToken's body, it holds
\* the lock exclusively, and no goroutine holds the shared lock meanwhile,
\* so none reads under the lock between the two assignments.
C36_ExchangesExclusive ==
  /\ Cardinality({g \in Goroutines : pc[g] \in InGetSessionToken}) <= 1
  /\ \A g \in Goroutines : pc[g] \in InGetSessionToken => (writer = g /\ readers = {})
  /\ \A g \in Goroutines : pc[g] \in {"itv_check", "cst_read"} => (g \in readers /\ writer = "none")

\* One call has assigned the expiry and not yet the credential while another
\* goroutine wants the lock for its own exchange and has to wait.
C36_Witness ==
  \E g, h \in Procs :
    /\ pc[g] = "gst_tok"
    /\ wroteExp[g]
    /\ pc[h] = "gst_lock"

\* The positions at which a goroutine asks for the lock.
LockRequests == {"itv_rlock", "gst_lock", "cst_rlock"}

\* C35: no goroutine asks for the lock while it holds it, and every
\* goroutine that asks for the lock gets it.
C35_LockNeverDeadlocks ==
  /\ [](\A g \in Goroutines : pc[g] \in LockRequests => (writer # g /\ g \notin readers))
  /\ \A g \in RefreshProcs :
       (pc[g] \in LockRequests) ~> (writer = g \/ g \in readers)

\* A handler waits for the lock while the refresher polls for the device
\* authorization inside GetSessionToken.
C35_Witness ==
  /\ pc["h1"] = "gst_lock"
  /\ writer = Refresher
  /\ pc[Refresher] = "setup_poll"
  /\ polls >= 1

\* C37: Setup handles every device-code reply that parses, whatever its poll
\* interval is, zero and absent included: it goes on to poll or returns an
\* error, and never panics or ends the process.
C37_SetupNeverCrashes == suPc \notin {"panic", "recovered", "aborted"}

\* Whether text holds the credential cred.
Holds(text, cred) ==
  /\ cred # <<>>
  /\ \E i \in 1..Len(text) :
       i + Len(cred) - 1 <= Len(text) /\ SubSeq(text, i, i + Len(cred) - 1) = cred

\* Whether the error of a run holds a credential the client had or has.
Leaks(out, c) ==
  /\ out.err # Nil
  /\ \/ Holds(out.err[1], c.access)
     \/ Holds(out.err[1], TrimSpace(c.access))
     \/ Holds(out.err[1], c.session)
     \/ Holds(out.err[1], out.session)

\* Whether every credential of the run can be sent as a header value.
SendableRun(c) == ValidHeaderFieldValue(c.access) /\ ValidHeaderFieldValue(c.session)

\* C32: no error the core returns holds the access or the session
\* credential, and two runs against the same servers, whose credentials
\* differ in their texts only and can all be sent as header values, return
\* the same error.
C32_ErrorsHoldNoCredential ==
  erOut.done =>
    /\ ~Leaks(erOut.a, erIn.a)
    /\ ~Leaks(erOut.b, erIn.b)
    /\ (SendableRun(erIn.a) /\ SendableRun(erIn.b)) => erOut.a.err = erOut.b.err

C32_Witness ==
  /\ erOut.done
  /\ erIn.op = "GetCompletion"
  /\ erIn.env.valid
  /\ erIn.a.session = <<"tidA">>
  /\ erIn.b.session = <<"tidB">>
  /\ erIn.a.access # erIn.b.access
  /\ erOut.a.err # Nil
  /\ erOut.a.err = erOut.b.err
  /\ \E i \in 1..Len(erOut.a.err[1]) : erOut.a.err[1][i] = "bad credentials"

\* C32 as stated: the two runs return the same error whatever the texts of
\* their credentials are.
C32_SameErrorForAnyCredential ==
  erOut.done =>
    /\ ~Leaks(erOut.a, erIn.a)
    /\ ~Leaks(erOut.b, erIn.b)
    /\ erOut.a.err = erOut.b.err

====
